---- MODULE Spec2Model ----
(***************************************************************************)
(* A model of fen0x/marvin: the Antiflood rate limiter (antiflood.py), the *)
(* sorted-merge blacklist scan and the admin-gated, possibly delayed,      *)
(* message deletion of MarvinBot (marvin.py).                              *)
(*                                                                         *)
(* The three parts share no state in the source (marvin.py never imports   *)
(* antiflood.py, check_blacklist reads only word_blacklist), so each has a *)
(* specification of its own over its own variables:                        *)
(*   SpecFlood      Antiflood.is_flooding under a clock                    *)
(*   SpecBlacklist  MarvinBot.main's blacklist load and check_blacklist    *)
(*   Spec           the main path calling delete_message_if_admin and the  *)
(*                  delete_message_with_delay threads it starts            *)
(*   SpecFair       Spec with the fairness of the thread scheduler         *)
(*   SpecGate       message_handler dispatching every update to its command *)
(*                  handler, with the deletions the handlers request        *)
(*   SpecLimiters   SpecFlood with two Antiflood objects                    *)
(*   SpecProcess    one process of the repository: it runs MarvinBot, which *)
(*                  builds no Antiflood, or it drives an Antiflood          *)
(*   SpecModeration delrule, delcomment and appost on an update of any shape *)
(*   SpecDispatch   message_handler on a message of any text                *)
(*   SpecListener   the check_new_reddit_posts thread                       *)
(***************************************************************************)
EXTENDS Integers, Sequences, FiniteSets

VARIABLES
    \* ---- antiflood.py ----
    _flood_data,    \* Antiflood._flood_data: user_id -> [begin, counter]
    time_limit,     \* self.time_limit
    count_limit,    \* self.count_limit
    now,            \* the value datetime.now() returns
    calls,          \* history: one entry per is_flooding call, in call order
    \* ---- marvin.py: the blacklist ----
    word_blacklist, \* self.word_blacklist
    started,        \* main() has loaded and sorted the blacklist
    text,           \* the argument of the last check_blacklist call
    good_check,     \* what that call returned
    \* ---- marvin.py: deletions ----
    tg_groups,          \* self.tg_groups: chat id -> the cached chat
    chat_member_status, \* the chat service: the bot's status in each chat
    pc,                 \* the main path: "idle", or "returned" inside a handler
    nreq,               \* updates taken by the main path so far
    req,                \* that call: its arguments and its handler
    dmia_result,        \* what the call did
    explained,          \* the handler has sent its explanation
    probes,             \* get_chat_member calls made, per chat
    units,              \* the delete_message_with_delay threads, in start order
    \* ---- marvin.py: message_handler ----
    hnd,                \* the update message_handler took last and the branch
                        \* of the command handler it ended in
    \* ---- marvin.py: check_new_reddit_posts ----
    listener            \* the listener thread: its position, the submission it
                        \* took last and the chat service calls it made for it

floodVars == <<_flood_data, time_limit, count_limit, now, calls>>
blacklistVars == <<word_blacklist, started, text, good_check>>
deleteVars == <<tg_groups, chat_member_status, pc, nreq, req, dmia_result,
                explained, probes, units>>
gateVars == <<hnd, listener>>
vars == <<floodVars, blacklistVars, deleteVars, gateVars>>

(***************************************************************************)
(* Bounds and input sets of the rate limiter.                              *)
(***************************************************************************)
MaxTime  == 4     \* the clock runs 0..MaxTime
MaxCalls == 4     \* is_flooding calls in one behaviour

Users       == {"u1", "u2"}
TimeLimits  == {0, 1, 2}      \* Antiflood(time_limit, _): not validated
CountLimits == {0, 1, 2, 3}   \* Antiflood(_, count_limit): not validated
ClockDrift  == {0, 1}         \* clock advance between two datetime.now() reads

\* the pre-state of a call for a user_id that is not in _flood_data
NoRecord == [begin |-> -1, counter |-> 0]

(***************************************************************************)
(* marvin.py: the blacklist.  A string is a sequence of code points, so    *)
(* that Python's str order (code point by code point, a proper prefix      *)
(* first) and str.split() are computed, not assumed.                       *)
(***************************************************************************)
MaxTextLen   == 4     \* characters in a text given to check_blacklist
MaxBlacklist == 2     \* entries of content/words_blacklist.json

Whitespace == {10, 32}            \* "\n", " "
Alphabet   == {32, 65, 97}        \* " ", "A", "a"
\* entries the JSON file may hold: "", "A", "a", "aa", "aA", "a "
BlEntries  == {<<>>, <<65>>, <<97>>, <<97, 97>>, <<97, 65>>, <<97, 32>>}

Texts         == UNION {[1..n -> Alphabet] : n \in 0..MaxTextLen}
RawBlacklists == UNION {[1..n -> BlEntries] : n \in 0..MaxBlacklist}

\* Python's None, which is no string
None == <<-1>>

\* a < b for two str
StrLess(a, b) ==
    \E k \in 1..(Len(b)) :
        /\ \A i \in 1..(k-1) : i <= Len(a) /\ a[i] = b[i]
        /\ k - 1 <= Len(a)
        /\ (k = Len(a) + 1 \/ a[k] < b[k])

\* list.sort() on a list of str: insertion of the head into the sorted tail
RECURSIVE sort(_)
Insert(w, sorted) ==
    LET before == {i \in 1..Len(sorted) : StrLess(sorted[i], w)}
        n      == Cardinality(before)
    IN  SubSeq(sorted, 1, n) \o <<w>> \o SubSeq(sorted, n + 1, Len(sorted))
sort(list) ==
    IF list = <<>> THEN <<>> ELSE Insert(Head(list), sort(Tail(list)))

\* str.split(): the maximal runs of non-whitespace characters, in order.
\* cur is the run being read.
RECURSIVE SplitFrom(_, _)
SplitFrom(rest, cur) ==
    IF rest = <<>> THEN (IF cur = <<>> THEN <<>> ELSE <<cur>>)
    ELSE IF Head(rest) \in Whitespace
         THEN (IF cur = <<>> THEN <<>> ELSE <<cur>>) \o SplitFrom(Tail(rest), <<>>)
         ELSE SplitFrom(Tail(rest), Append(cur, Head(rest)))
split(s) == SplitFrom(s, <<>>)

\* the while loop of check_blacklist; index_t and index_b count from 1 here
RECURSIVE walk(_, _, _, _)
walk(words, blacklist, index_t, index_b) ==
    IF ~(index_t <= Len(words) /\ index_b <= Len(blacklist)) THEN None
    ELSE IF words[index_t] = blacklist[index_b] THEN words[index_t]
    ELSE IF StrLess(blacklist[index_b], words[index_t])
         THEN walk(words, blacklist, index_t, index_b + 1)
         ELSE walk(words, blacklist, index_t + 1, index_b)

\* the same loop, as the list of its tests of the loop condition: the indices
\* at each test and what follows it (the loop is left, the word is returned,
\* index_b or index_t is advanced)
RECURSIVE walk_steps(_, _, _, _)
RECURSIVE walk_steps_rescans(_, _, _, _)
walk_steps_rescans(words, blacklist, index_t, index_b) ==
    LET at(does) == [index_t |-> index_t, index_b |-> index_b, does |-> does]
    IN  IF ~(index_t <= Len(words) /\ index_b <= Len(blacklist)) THEN <<at("left")>>
        ELSE IF words[index_t] = blacklist[index_b] THEN <<at("return")>>
        ELSE IF StrLess(blacklist[index_b], words[index_t])
             THEN <<at("index_b")>> \o walk_steps_rescans(words, blacklist, index_t, index_b + 1)
             ELSE <<at("index_t")>> \o walk_steps_rescans(words, blacklist, index_t + 1, 1)
walk_steps(words, blacklist, index_t, index_b) ==
    LET at(does) == [index_t |-> index_t, index_b |-> index_b, does |-> does]
    IN  IF ~(index_t <= Len(words) /\ index_b <= Len(blacklist)) THEN <<at("left")>>
        ELSE IF words[index_t] = blacklist[index_b] THEN <<at("return")>>
        ELSE IF StrLess(blacklist[index_b], words[index_t])
             THEN <<at("index_b")>> \o walk_steps(words, blacklist, index_t, index_b + 1)
             ELSE <<at("index_t")>> \o walk_steps(words, blacklist, index_t + 1, index_b)

\* check_blacklist(text)
check_blacklist_unsorted(t) == walk(split(t), word_blacklist, 1, 1)
check_blacklist(t) == walk(sort(split(t)), word_blacklist, 1, 1)

\* main(): every word of the file is appended, then the list is sorted
main_load_blacklist ==
    /\ ~started
    /\ \E raw \in RawBlacklists : word_blacklist' = sort(word_blacklist \o raw)
    /\ started' = TRUE
    /\ UNCHANGED <<text, good_check>>

\* a handler calls check_blacklist(text)
call_check_blacklist ==
    /\ started
    /\ \E t \in Texts :
          /\ text' = t
          /\ good_check' = check_blacklist(t)
    /\ UNCHANGED <<word_blacklist, started>>

\* MarvinBot.__init__
InitBlacklist ==
    /\ word_blacklist = <<>>
    /\ started = FALSE
    /\ text = <<>>
    /\ good_check = None

(***************************************************************************)
(* marvin.py: delete_message_if_admin and delete_message_with_delay.       *)
(* The dispatcher runs one handler at a time (the main path); every        *)
(* Thread(target=delete_message_with_delay) is a unit of its own.          *)
(***************************************************************************)
MaxUpdates == 2     \* updates handled in one behaviour

Scopes   == {"chatA", "chatB"}                      \* tg_group.id
Delays   == {-1, 0, 1, 2}                           \* seconds_delay
Statuses == {"administrator", "member"}             \* the bot's ChatMember.status

NoReq    == [id |-> 0, scope |-> "chatA", msg |-> 0, delay |-> 0, explain |-> FALSE]
NoResult == [probed |-> FALSE, gate |-> "none", raised |-> "no",
             started |-> 0, deleted |-> 0]

\* is_sender_admin, given the status get_chat_member returned
is_sender_admin(status) == status = "administrator" \/ status = "creator"

\* the cached chat after self.tg_groups[tg_group.id] = tg_group: a fresh chat
\* object, which has no is_admin attribute yet
store_group_rebinds(tg_group) ==
    [g \in {tg_group} |-> [has_is_admin |-> FALSE, is_admin |-> FALSE]]
store_group(tg_group) ==
    [g \in DOMAIN tg_groups \cup {tg_group} |->
        IF g = tg_group THEN [has_is_admin |-> FALSE, is_admin |-> FALSE]
        ELSE tg_groups[g]]

\* delete_thread = Thread(target=self.delete_message_with_delay, ...);
\* delete_thread.start(): the new unit begins its sleep, the caller goes on
start_delete_thread_joined(tg_group, message_id, seconds_delay) ==
    /\ \E ok \in BOOLEAN :
          units' = Append(units,
              [req |-> nreq + 1, scope |-> tg_group, msg |-> message_id,
               delay |-> seconds_delay, pc |-> "done", elapsed |-> seconds_delay,
               deletes |-> 1, outcome |-> IF ok THEN "ok" ELSE "error",
               admin_then |-> is_sender_admin(chat_member_status[tg_group])])
start_delete_thread(tg_group, message_id, seconds_delay) ==
    /\ units' = Append(units,
          [req |-> nreq + 1, scope |-> tg_group, msg |-> message_id,
           delay |-> seconds_delay, pc |-> "sleeping", elapsed |-> 0,
           deletes |-> 0, outcome |-> "none", admin_then |-> FALSE])

\* lines 195-201, after the probe returned is_admin
first_call_acts_ungated(tg_group, message_id, seconds_delay, is_admin) ==
    IF seconds_delay > 0
    THEN /\ start_delete_thread(tg_group, message_id, seconds_delay)
         /\ dmia_result' = [probed |-> TRUE, gate |-> IF is_admin THEN "True" ELSE "False",
                            raised |-> "no", started |-> 1, deleted |-> 0]
         /\ pc' = "returned"
    ELSE /\ units' = units
         /\ \E ok \in BOOLEAN :
               /\ dmia_result' = [probed |-> TRUE, gate |-> IF is_admin THEN "True" ELSE "False",
                                  raised |-> IF ok THEN "no" ELSE "delete",
                                  started |-> 0, deleted |-> 1]
               /\ pc' = IF ok THEN "returned" ELSE "idle"
first_call_acts_thread_from_zero(tg_group, message_id, seconds_delay, is_admin) ==
    IF is_admin
    THEN IF seconds_delay >= 0
         THEN /\ start_delete_thread(tg_group, message_id, seconds_delay)
              /\ dmia_result' = [probed |-> TRUE, gate |-> "True", raised |-> "no",
                                 started |-> 1, deleted |-> 0]
              /\ pc' = "returned"
         ELSE /\ units' = units
              /\ \E ok \in BOOLEAN :
                    /\ dmia_result' = [probed |-> TRUE, gate |-> "True",
                                       raised |-> IF ok THEN "no" ELSE "delete",
                                       started |-> 0, deleted |-> 1]
                    /\ pc' = IF ok THEN "returned" ELSE "idle"
    ELSE /\ units' = units
         /\ dmia_result' = [probed |-> TRUE, gate |-> "False", raised |-> "no",
                            started |-> 0, deleted |-> 0]
         /\ pc' = "returned"
first_call_acts_swallows_failure(tg_group, message_id, seconds_delay, is_admin) ==
    IF is_admin
    THEN IF seconds_delay > 0
         THEN /\ start_delete_thread(tg_group, message_id, seconds_delay)
              /\ dmia_result' = [probed |-> TRUE, gate |-> "True", raised |-> "no",
                                 started |-> 1, deleted |-> 0]
              /\ pc' = "returned"
         ELSE /\ units' = units
              /\ \E ok \in BOOLEAN :
                    /\ dmia_result' = [probed |-> TRUE, gate |-> "True",
                                       raised |-> IF ok THEN "no" ELSE "delete",
                                       started |-> 0, deleted |-> 1]
                    /\ pc' = "returned"
    ELSE /\ units' = units
         /\ dmia_result' = [probed |-> TRUE, gate |-> "False", raised |-> "no",
                            started |-> 0, deleted |-> 0]
         /\ pc' = "returned"
first_call_acts(tg_group, message_id, seconds_delay, is_admin) ==
    IF is_admin
    THEN IF seconds_delay > 0
         THEN /\ start_delete_thread(tg_group, message_id, seconds_delay)
              /\ dmia_result' = [probed |-> TRUE, gate |-> "True", raised |-> "no",
                                 started |-> 1, deleted |-> 0]
              /\ pc' = "returned"
         ELSE \* self.updater.bot.delete_message(...): it succeeds or raises
              /\ units' = units
              /\ \E ok \in BOOLEAN :
                    /\ dmia_result' = [probed |-> TRUE, gate |-> "True",
                                       raised |-> IF ok THEN "no" ELSE "delete",
                                       started |-> 0, deleted |-> 1]
                    /\ pc' = IF ok THEN "returned" ELSE "idle"
    ELSE /\ units' = units
         /\ dmia_result' = [probed |-> TRUE, gate |-> "False", raised |-> "no",
                            started |-> 0, deleted |-> 0]
         /\ pc' = "returned"

\* lines 191-201: tg_group.id not in self.tg_groups
dmia_first(tg_group, message_id, seconds_delay) ==
    /\ probes' = [probes EXCEPT ![tg_group] = @ + 1]
    /\ \/ \* get_chat_member raises: the chat stays cached without is_admin
          /\ tg_groups' = store_group(tg_group)
          /\ dmia_result' = [probed |-> TRUE, gate |-> "none", raised |-> "probe",
                             started |-> 0, deleted |-> 0]
          /\ pc' = "idle"
          /\ units' = units
       \/ LET is_admin == is_sender_admin(chat_member_status[tg_group])
          IN  /\ tg_groups' = [store_group(tg_group) EXCEPT
                     ![tg_group] = [has_is_admin |-> TRUE, is_admin |-> is_admin]]
              /\ first_call_acts(tg_group, message_id, seconds_delay, is_admin)

\* lines 202-209: the chat is cached
dmia_cached_any_chat(tg_group, message_id, seconds_delay) ==
    /\ UNCHANGED <<tg_groups, probes>>
    /\ IF seconds_delay > 0
       THEN /\ start_delete_thread(tg_group, message_id, seconds_delay)
            /\ dmia_result' = [probed |-> FALSE,
                               gate |-> IF tg_groups[tg_group].is_admin THEN "True" ELSE "False",
                               raised |-> "no", started |-> 1, deleted |-> 0]
            /\ pc' = "returned"
       ELSE /\ units' = units
            /\ \E ok \in BOOLEAN :
                  /\ dmia_result' = [probed |-> FALSE,
                                     gate |-> IF tg_groups[tg_group].is_admin THEN "True" ELSE "False",
                                     raised |-> IF ok THEN "no" ELSE "delete",
                                     started |-> 0, deleted |-> 1]
                  /\ pc' = IF ok THEN "returned" ELSE "idle"
dmia_cached_refreshes(tg_group, message_id, seconds_delay) ==
    LET is_admin == is_sender_admin(chat_member_status[tg_group])
    IN  /\ tg_groups' = [tg_groups EXCEPT
               ![tg_group] = [has_is_admin |-> TRUE, is_admin |-> is_admin]]
        /\ probes' = probes
        /\ IF is_admin
           THEN IF seconds_delay > 0
                THEN /\ start_delete_thread(tg_group, message_id, seconds_delay)
                     /\ dmia_result' = [probed |-> FALSE, gate |-> "True", raised |-> "no",
                                        started |-> 1, deleted |-> 0]
                     /\ pc' = "returned"
                ELSE /\ units' = units
                     /\ \E ok \in BOOLEAN :
                           /\ dmia_result' = [probed |-> FALSE, gate |-> "True",
                                              raised |-> IF ok THEN "no" ELSE "delete",
                                              started |-> 0, deleted |-> 1]
                           /\ pc' = IF ok THEN "returned" ELSE "idle"
           ELSE /\ units' = units
                /\ dmia_result' = [probed |-> FALSE, gate |-> "False", raised |-> "no",
                                   started |-> 0, deleted |-> 0]
                /\ pc' = "returned"
dmia_cached_deletes_at_once(tg_group, message_id, seconds_delay) ==
    /\ UNCHANGED <<tg_groups, probes>>
    /\ IF ~tg_groups[tg_group].has_is_admin
       THEN /\ units' = units
            /\ dmia_result' = [probed |-> FALSE, gate |-> "none", raised |-> "attribute",
                               started |-> 0, deleted |-> 0]
            /\ pc' = "idle"
       ELSE IF tg_groups[tg_group].is_admin
       THEN /\ units' = units
            /\ \E ok \in BOOLEAN :
                  /\ dmia_result' = [probed |-> FALSE, gate |-> "True",
                                     raised |-> IF ok THEN "no" ELSE "delete",
                                     started |-> 0, deleted |-> 1]
                  /\ pc' = IF ok THEN "returned" ELSE "idle"
       ELSE /\ units' = units
            /\ dmia_result' = [probed |-> FALSE, gate |-> "False", raised |-> "no",
                               started |-> 0, deleted |-> 0]
            /\ pc' = "returned"
dmia_cached(tg_group, message_id, seconds_delay) ==
    /\ UNCHANGED <<tg_groups, probes>>
    /\ IF ~tg_groups[tg_group].has_is_admin
       THEN \* AttributeError: the cached chat has no is_admin
            /\ units' = units
            /\ dmia_result' = [probed |-> FALSE, gate |-> "none", raised |-> "attribute",
                               started |-> 0, deleted |-> 0]
            /\ pc' = "idle"
       ELSE IF tg_groups[tg_group].is_admin
       THEN IF seconds_delay > 0
            THEN /\ start_delete_thread(tg_group, message_id, seconds_delay)
                 /\ dmia_result' = [probed |-> FALSE, gate |-> "True", raised |-> "no",
                                    started |-> 1, deleted |-> 0]
                 /\ pc' = "returned"
            ELSE /\ units' = units
                 /\ \E ok \in BOOLEAN :
                       /\ dmia_result' = [probed |-> FALSE, gate |-> "True",
                                          raised |-> IF ok THEN "no" ELSE "delete",
                                          started |-> 0, deleted |-> 1]
                       /\ pc' = IF ok THEN "returned" ELSE "idle"
       ELSE /\ units' = units
            /\ dmia_result' = [probed |-> FALSE, gate |-> "False", raised |-> "no",
                               started |-> 0, deleted |-> 0]
            /\ pc' = "returned"

\* delete_message_if_admin(tg_group, message_id, seconds_delay)
delete_message_if_admin_uncached(tg_group, message_id, seconds_delay) ==
    dmia_first(tg_group, message_id, seconds_delay)
delete_message_if_admin(tg_group, message_id, seconds_delay) ==
    IF tg_group \notin DOMAIN tg_groups
    THEN dmia_first(tg_group, message_id, seconds_delay)
    ELSE dmia_cached(tg_group, message_id, seconds_delay)

\* update.message.message_id: every update brings a message with an id of its own
new_message_id == nreq + 1

\* the dispatcher hands the next update to its handler, which calls
\* delete_message_if_admin(update.message.chat, message_id[, delay])
handle_update ==
    /\ pc = "idle"
    /\ nreq < MaxUpdates
    /\ \E tg_group \in Scopes, message_id \in {new_message_id}, seconds_delay \in Delays,
          explain \in BOOLEAN :
          \* the callers that pass a delay (welcome, an unknown command) send
          \* nothing after the call
          /\ seconds_delay > 0 => ~explain
          /\ req' = [id |-> nreq + 1, scope |-> tg_group, msg |-> message_id,
                     delay |-> seconds_delay, explain |-> explain]
          /\ delete_message_if_admin(tg_group, message_id, seconds_delay)
    /\ nreq' = nreq + 1
    /\ explained' = FALSE
    /\ UNCHANGED chat_member_status
    /\ UNCHANGED <<floodVars, blacklistVars, gateVars>>

\* the handler goes on after the call: send_tg_message_reply_or_private, return
handler_return ==
    /\ pc = "returned"
    /\ hnd.todo = <<>>
    /\ explained' = req.explain
    /\ pc' = "idle"
    /\ UNCHANGED <<tg_groups, chat_member_status, nreq, req, dmia_result, probes, units>>
    /\ UNCHANGED <<floodVars, blacklistVars, gateVars>>

\* sleep(seconds_delay) has returned
sleep_returned_at_once(u) == TRUE
sleep_returned(u) == u.elapsed >= u.delay

\* delete_message_with_delay in unit k: the sleep is over, delete_message is
\* called and succeeds or raises, the thread ends
delete_message_with_delay_gated(k) ==
    /\ k \in 1..Len(units)
    /\ units[k].pc = "sleeping"
    /\ sleep_returned(units[k])
    /\ \E ok \in BOOLEAN :
          units' = [units EXCEPT ![k] =
              IF is_sender_admin(chat_member_status[units[k].scope])
              THEN [@ EXCEPT !.pc = "done", !.deletes = @ + 1,
                             !.outcome = IF ok THEN "ok" ELSE "error",
                             !.admin_then = TRUE]
              ELSE [@ EXCEPT !.pc = "done"]]
    /\ UNCHANGED <<tg_groups, chat_member_status, pc, nreq, req, dmia_result,
                   explained, probes>>
    /\ UNCHANGED <<floodVars, blacklistVars, gateVars>>
delete_message_with_delay_retries(k) ==
    /\ k \in 1..Len(units)
    /\ units[k].pc = "sleeping"
    /\ sleep_returned(units[k])
    /\ \E ok \in BOOLEAN :
          units' = [units EXCEPT ![k] =
              [@ EXCEPT !.pc = IF ok \/ units[k].deletes >= 1 THEN "done" ELSE "sleeping",
                        !.deletes = @ + 1,
                        !.outcome = IF ok THEN "ok" ELSE "error",
                        !.admin_then = is_sender_admin(chat_member_status[units[k].scope])]]
    /\ UNCHANGED <<tg_groups, chat_member_status, pc, nreq, req, dmia_result,
                   explained, probes>>
    /\ UNCHANGED <<floodVars, blacklistVars, gateVars>>
delete_message_with_delay_after_updates(k) ==
    /\ k \in 1..Len(units)
    /\ units[k].pc = "sleeping"
    /\ sleep_returned(units[k])
    /\ pc = "idle" /\ nreq = MaxUpdates
    /\ \E ok \in BOOLEAN :
          units' = [units EXCEPT ![k] =
              [@ EXCEPT !.pc = "done", !.deletes = @ + 1,
                        !.outcome = IF ok THEN "ok" ELSE "error",
                        !.admin_then = is_sender_admin(chat_member_status[units[k].scope])]]
    /\ UNCHANGED <<tg_groups, chat_member_status, pc, nreq, req, dmia_result,
                   explained, probes>>
    /\ UNCHANGED <<floodVars, blacklistVars, gateVars>>
delete_message_with_delay_rechecks(k) ==
    /\ k \in 1..Len(units)
    /\ units[k].pc = "sleeping"
    /\ sleep_returned(units[k])
    /\ \E ok \in BOOLEAN :
          units' = [units EXCEPT ![k] =
              [@ EXCEPT !.pc = "done", !.deletes = @ + 1,
                        !.outcome = IF ok THEN "ok" ELSE "error",
                        !.admin_then = is_sender_admin(chat_member_status[units[k].scope])]]
    /\ tg_groups' = [tg_groups EXCEPT ![units[k].scope] =
          [has_is_admin |-> TRUE,
           is_admin |-> is_sender_admin(chat_member_status[units[k].scope])]]
    /\ UNCHANGED <<chat_member_status, pc, nreq, req, dmia_result, explained, probes>>
    /\ UNCHANGED <<floodVars, blacklistVars, gateVars>>
delete_message_with_delay(k) ==
    /\ k \in 1..Len(units)
    /\ units[k].pc = "sleeping"
    /\ sleep_returned(units[k])
    /\ \E ok \in BOOLEAN :
          units' = [units EXCEPT ![k] =
              [@ EXCEPT !.pc = "done", !.deletes = @ + 1,
                        !.outcome = IF ok THEN "ok" ELSE "error",
                        !.admin_then = is_sender_admin(chat_member_status[units[k].scope])]]
    /\ UNCHANGED <<tg_groups, chat_member_status, pc, nreq, req, dmia_result,
                   explained, probes>>
    /\ UNCHANGED <<floodVars, blacklistVars, gateVars>>

\* one second passes for every sleeping unit
Second ==
    /\ \E k \in 1..Len(units) : units[k].pc = "sleeping" /\ units[k].elapsed < units[k].delay
    /\ units' = [k \in 1..Len(units) |->
          IF units[k].pc = "sleeping" /\ units[k].elapsed < units[k].delay
          THEN [units[k] EXCEPT !.elapsed = @ + 1] ELSE units[k]]
    /\ UNCHANGED <<tg_groups, chat_member_status, pc, nreq, req, dmia_result,
                   explained, probes>>
    /\ UNCHANGED <<floodVars, blacklistVars, gateVars>>

\* the chat's owners promote or demote the bot
set_status ==
    /\ \E g \in Scopes, st \in Statuses :
          /\ st # chat_member_status[g]
          /\ chat_member_status' = [chat_member_status EXCEPT ![g] = st]
    /\ UNCHANGED <<tg_groups, pc, nreq, req, dmia_result, explained, probes, units>>
    /\ UNCHANGED <<floodVars, blacklistVars, gateVars>>

(***************************************************************************)
(* marvin.py: message_handler and the command handlers.  An update is what *)
(* the handlers read of it; a handler is the chain of its checks, in the    *)
(* order of the source, and yields the branch it ends in: the deletions it  *)
(* requests, the message it sends after them, the content-platform action.  *)
(***************************************************************************)
Senders == {"u1"}                     \* update.message.from_user.id
authorized_group_id == "chatA"        \* bot_data.json: telegram.authorized_group_id
others_commands_groups == {}          \* bot_data.json: telegram.others_commands_groups
unknown_command_delay == 5            \* the literal 5 of message_handler's else branch

Commands == {"/start", "/id", "/comment", "/postlink", "/posttext", "/delrule",
             "/delcomment", "/appost", "/admin", "/other", "@admin", "plain",
             "notext"}

\* the text after the command word: " ", "aa", "a A", "aaaaaa"
Bodies == {<<32>>, <<97, 97>>, <<97, 32, 65>>, <<97, 97, 97, 97, 97, 97>>}

\* update.message.reply_to_message.message_id of a message older than every
\* update
reply_to_message_id == 0

\* an update every check of every handler lets through
GoodUpdate ==
    [chat |-> authorized_group_id, sender |-> "u1", command |-> "/comment",
     reply |-> TRUE,           \* update.message.reply_to_message is set
     reply_to |-> reply_to_message_id,   \* its message_id
     urls |-> 1,               \* URL entities of the message the handler parses
     body |-> <<97, 97>>,
     reddit_link |-> TRUE,     \* id_from_url(url) raises no ClientException
     own_subreddit |-> TRUE,   \* the target belongs to self.subreddit
     locked |-> FALSE,         \* submission.locked
     scheme |-> "https",       \* urlparse(link).scheme
     title |-> TRUE,           \* get_page_title_from_url found a title
     from_admin |-> TRUE,      \* is_sender_admin(bot, chat, from_user)
     rule |-> "known",         \* the rule number word: missing, notint, unknown, known
     raw |-> None,             \* update.message.text, where message_handler is
                               \* given the text itself; command stands for it
     admins_ok |-> TRUE]       \* get_chat_administrators raises no TelegramError

\* is_message_in_correct_group(chat)
is_message_in_correct_group(chat) ==
    chat = authorized_group_id \/ chat \in others_commands_groups

\* the updates of the model, per command word: GoodUpdate with one of the
\* properties that command's handler reads changed, and for the handlers that
\* also take a command without reply_to_message, the same without it
WithLink ==
    {GoodUpdate, [GoodUpdate EXCEPT !.urls = 0], [GoodUpdate EXCEPT !.reddit_link = FALSE],
     [GoodUpdate EXCEPT !.own_subreddit = FALSE]}
ByModerator ==
    WithLink \cup {[GoodUpdate EXCEPT !.from_admin = FALSE]}
WithRule ==
    ByModerator \cup {[GoodUpdate EXCEPT !.rule = r] : r \in {"missing", "notint", "unknown"}}
Unreplied(shapes) == shapes \cup {[u EXCEPT !.reply = FALSE] : u \in shapes}
UpdateShapes(command) ==
    CASE command = "/comment" ->
            WithLink \cup {[GoodUpdate EXCEPT !.reply = FALSE]}
                     \cup {[GoodUpdate EXCEPT !.body = b] : b \in Bodies}
                     \cup {[GoodUpdate EXCEPT !.locked = TRUE]}
      [] command = "/postlink" ->
            {GoodUpdate, [GoodUpdate EXCEPT !.reply = FALSE], [GoodUpdate EXCEPT !.title = FALSE]}
                \cup {[GoodUpdate EXCEPT !.urls = n] : n \in {0, 2}}
                \cup {[GoodUpdate EXCEPT !.scheme = c] : c \in {"", "ftp"}}
      [] command = "/posttext" ->
            {[GoodUpdate EXCEPT !.reply = FALSE]}
                \cup {[GoodUpdate EXCEPT !.body = b] : b \in Bodies}
      [] command = "/delrule" -> Unreplied(WithRule)
      [] command = "/delcomment" -> WithRule
      [] command = "/appost" -> Unreplied(ByModerator)
      [] command \in {"/admin", "@admin"} ->
            {GoodUpdate, [GoodUpdate EXCEPT !.admins_ok = FALSE]}
      [] OTHER -> {GoodUpdate}
\* in a chat that is not authorized every handler stops at its first check or
\* reads nothing but the chat: GoodUpdate stands for all shapes there
ShapesIn(command, chat) ==
    IF is_message_in_correct_group(chat) THEN UpdateShapes(command) ELSE {GoodUpdate}
Updates ==
    UNION {{[u EXCEPT !.chat = p[1], !.sender = s, !.command = p[2]] :
                u \in ShapesIn(p[2], p[1]), s \in Senders} : p \in Scopes \X Commands}

\* str.strip(): without the leading and the trailing whitespace
RECURSIVE lstrip(_)
lstrip(s) ==
    IF s # <<>> /\ Head(s) \in Whitespace THEN lstrip(Tail(s)) ELSE s
RECURSIVE rstrip(_)
rstrip(s) ==
    IF s # <<>> /\ s[Len(s)] \in Whitespace THEN rstrip(SubSeq(s, 1, Len(s) - 1)) ELSE s
strip(s) == rstrip(lstrip(s))

\* comment(): the text given to check_blacklist and to submission.reply: the
\* header "\[[Telegram](...) - [user](...)\]  \n", its three words cut to their
\* first character, then the comment
comment_header == <<92, 32, 45, 32, 91, 32, 32, 10>>
comment_text(m) == comment_header \o strip(m.body)

\* the branch a handler ends in
Outcome(kind, branch, deletes, delay, then) ==
    [kind |-> kind, branch |-> branch, deletes |-> deletes, delay |-> delay,
     then |-> then, scan |-> FALSE, names |-> None, platform |-> "none"]
\* a check failed: delete_message_if_admin(chat, message_id), then
\* send_tg_message_reply_or_private(update, <the text of that branch>), return
Reject(branch) == Outcome("reject", branch, <<"command">>, 0, branch)
\* the handler does what the command asks for
Accept(platform, deletes, then) ==
    [Outcome("accept", "done", deletes, 0, then) EXCEPT !.platform = platform]


\* start(update); the name start is taken by is_in_timeframe's parameter
start_handler(m) ==
    IF m.chat # authorized_group_id
    THEN Outcome("info", "welcome", <<>>, 0, "welcome")
    ELSE Outcome("cleanup", "start", <<"command">>, 0, "none")

\* get_id(update)
get_id(m) == Outcome("info", "chat_id", <<>>, 0, "chat_id")

\* comment(update), lines 347-362: the post is of the subreddit and not locked
comment_scan_names_first_word(m) ==
    LET good_check_ == check_blacklist(comment_text(m))
    IN  IF good_check_ = None
        THEN [Accept("reply", <<>>, "comment_added") EXCEPT !.scan = TRUE]
        ELSE [Reject("blacklisted") EXCEPT
                 !.scan = TRUE, !.names = Head(split(m.body))]
comment_scan(m) ==
    LET good_check_ == check_blacklist(comment_text(m))
    IN  IF good_check_ = None
        THEN [Accept("reply", <<>>, "comment_added") EXCEPT !.scan = TRUE]
        ELSE [Reject("blacklisted") EXCEPT
                 !.scan = TRUE, !.names = good_check_]

\* comment(update)
comment_ignores_lock(m) ==
    IF ~is_message_in_correct_group(m.chat) THEN Reject("wrong_group")
    ELSE IF ~m.reply THEN Reject("need_reply")
    ELSE IF m.urls = 0 THEN Reject("need_link")
    ELSE IF strip(m.body) = <<>>
         THEN \* empty comment: the message is deleted, nothing is sent
              [Reject("empty") EXCEPT !.then = "none"]
    ELSE IF ~m.reddit_link THEN Reject("bad_link")
    ELSE IF m.own_subreddit
         THEN comment_scan(m)
    ELSE Reject("other_subreddit")
comment(m) ==
    IF ~is_message_in_correct_group(m.chat) THEN Reject("wrong_group")
    ELSE IF ~m.reply THEN Reject("need_reply")
    ELSE IF m.urls = 0 THEN Reject("need_link")
    ELSE IF strip(m.body) = <<>>
         THEN \* empty comment: the message is deleted, nothing is sent
              [Reject("empty") EXCEPT !.then = "none"]
    ELSE IF ~m.reddit_link THEN Reject("bad_link")
    ELSE IF m.own_subreddit
         THEN IF m.locked THEN Reject("locked")
              ELSE comment_scan(m)
    ELSE Reject("other_subreddit")

\* postlink(subreddit, update)
postlink(m) ==
    IF ~is_message_in_correct_group(m.chat) THEN Reject("wrong_group")
    ELSE IF ~m.reply THEN Reject("need_reply")
    ELSE IF m.urls = 0 THEN Reject("need_url")
    ELSE IF m.urls > 1 THEN Reject("one_url_only")
    ELSE IF m.scheme # "" /\ m.scheme \notin {"http", "https"} THEN Reject("need_http")
    ELSE IF ~m.title THEN Reject("no_title")
    ELSE Accept("submit", <<>>, "post_created")

\* posttext(subreddit, update)
posttext_keeps_short_title(m) ==
    IF ~is_message_in_correct_group(m.chat) THEN Reject("wrong_group")
    ELSE IF ~m.reply THEN Reject("need_reply")
    ELSE IF Len(strip(m.body)) < 1 THEN Reject("need_title")
    ELSE IF Len(strip(m.body)) < 6
         THEN Outcome("reject", "short_title", <<>>, 0, "short_title")
    ELSE Accept("submit", <<>>, "post_created")
posttext(m) ==
    IF ~is_message_in_correct_group(m.chat) THEN Reject("wrong_group")
    ELSE IF ~m.reply THEN Reject("need_reply")
    ELSE IF Len(strip(m.body)) < 1 THEN Reject("need_title")
    ELSE IF Len(strip(m.body)) < 6 THEN Reject("short_title")
    ELSE Accept("submit", <<>>, "post_created")

\* delrule(update).  Without reply_to_message the link is the first word after
\* the command and the rule number the second: int(split_message[1]) raises
\* IndexError when there is no second word.
delrule_subreddit_before_rule(m) ==
    IF ~is_message_in_correct_group(m.chat) THEN Reject("wrong_group")
    ELSE IF ~m.from_admin THEN Reject("not_admin")
    ELSE IF ~m.reply /\ m.urls = 0 THEN Reject("need_url_or_reply")
    ELSE IF m.reply /\ m.urls = 0 THEN Reject("reply_needs_link")
    ELSE IF ~m.reddit_link THEN Reject("bad_link")
    ELSE IF ~m.own_subreddit THEN Reject("other_subreddit")
    ELSE IF m.reply /\ m.rule = "missing" THEN Reject("no_rule_number")
    ELSE IF ~m.reply /\ m.rule = "missing"
         THEN Outcome("raise", "IndexError", <<>>, 0, "none")
    ELSE IF m.rule = "notint" THEN Reject("bad_rule_number")
    ELSE IF m.rule = "unknown" THEN Reject("unknown_rule")
    ELSE Accept("remove",
                IF m.reply THEN <<"replied", "command">> ELSE <<"command">>,
                "deleted_notice")
delrule(m) ==
    IF ~is_message_in_correct_group(m.chat) THEN Reject("wrong_group")
    ELSE IF ~m.from_admin THEN Reject("not_admin")
    ELSE IF ~m.reply /\ m.urls = 0 THEN Reject("need_url_or_reply")
    ELSE IF m.reply /\ m.urls = 0 THEN Reject("reply_needs_link")
    ELSE IF ~m.reddit_link THEN Reject("bad_link")
    ELSE IF m.reply /\ m.rule = "missing" THEN Reject("no_rule_number")
    ELSE IF ~m.reply /\ m.rule = "missing"
         THEN Outcome("raise", "IndexError", <<>>, 0, "none")
    ELSE IF m.rule = "notint" THEN Reject("bad_rule_number")
    ELSE IF m.rule = "unknown" THEN Reject("unknown_rule")
    ELSE IF m.own_subreddit
         THEN Accept("remove",
                     IF m.reply THEN <<"replied", "command">> ELSE <<"command">>,
                     "deleted_notice")
    ELSE Reject("other_subreddit")

\* delcomment(update)
delcomment(m) ==
    IF ~is_message_in_correct_group(m.chat) THEN Reject("wrong_group")
    ELSE IF ~m.from_admin THEN Reject("not_admin")
    ELSE IF m.urls = 0 THEN Reject("need_url")
    ELSE IF ~m.reddit_link THEN Reject("bad_link")
    ELSE IF m.rule = "missing" THEN Reject("no_rule_number")
    ELSE IF m.rule = "notint" THEN Reject("bad_rule_number")
    ELSE IF m.rule = "unknown" THEN Reject("unknown_rule")
    ELSE IF m.own_subreddit THEN Accept("remove", <<"command">>, "deleted_notice")
    ELSE Reject("other_subreddit")

\* appost(update)
appost(m) ==
    IF ~is_message_in_correct_group(m.chat) THEN Reject("wrong_group")
    ELSE IF ~m.from_admin THEN Reject("not_admin")
    ELSE IF ~m.reply /\ m.urls = 0 THEN Reject("need_url_or_reply")
    ELSE IF m.reply /\ m.urls = 0 THEN Reject("reply_needs_link")
    ELSE IF ~m.reddit_link THEN Reject("bad_link")
    ELSE IF m.own_subreddit THEN Accept("approve", <<"command">>, "none")
    ELSE Reject("other_subreddit")

\* admin(update)
admin(m) ==
    IF ~is_message_in_correct_group(m.chat) THEN Reject("wrong_group")
    ELSE IF m.admins_ok THEN Outcome("accept", "done", <<>>, 0, "admins_contacted")
    ELSE Outcome("error", "TelegramError", <<>>, 0, "admin_list_error")

\* message_handler(update, context): the handler the update is given to and
\* the branch that handler ends in
dispatch_explains_unknown(m) ==
    IF m.command = "notext" THEN Outcome("ignore", "no_text", <<>>, 0, "none")
    ELSE IF m.command = "/start" THEN start_handler(m)
    ELSE IF m.command = "/id" THEN get_id(m)
    ELSE IF m.command = "/comment" THEN comment(m)
    ELSE IF m.command = "/postlink" THEN postlink(m)
    ELSE IF m.command = "/posttext" THEN posttext(m)
    ELSE IF m.command = "/delrule" THEN delrule(m)
    ELSE IF m.command = "/delcomment" THEN delcomment(m)
    ELSE IF m.command = "/appost" THEN appost(m)
    ELSE IF m.command = "/admin" THEN admin(m)
    ELSE IF m.command = "/other" THEN Reject("unknown_command")
    ELSE IF m.command = "@admin" THEN admin(m)
    ELSE Outcome("ignore", "plain_text", <<>>, 0, "none")
dispatch(m) ==
    IF m.command = "notext" THEN Outcome("ignore", "no_text", <<>>, 0, "none")
    ELSE IF m.command = "/start" THEN start_handler(m)
    ELSE IF m.command = "/id" THEN get_id(m)
    ELSE IF m.command = "/comment" THEN comment(m)
    ELSE IF m.command = "/postlink" THEN postlink(m)
    ELSE IF m.command = "/posttext" THEN posttext(m)
    ELSE IF m.command = "/delrule" THEN delrule(m)
    ELSE IF m.command = "/delcomment" THEN delcomment(m)
    ELSE IF m.command = "/appost" THEN appost(m)
    ELSE IF m.command = "/admin" THEN admin(m)
    ELSE IF m.command = "/other"
         THEN Outcome("cleanup", "unknown_command", <<"command">>,
                      unknown_command_delay, "none")
    ELSE IF m.command = "@admin" THEN admin(m)
    ELSE Outcome("ignore", "plain_text", <<>>, 0, "none")

\* no update has been handled yet
NoUpdate ==
    [id |-> 0, update |-> [GoodUpdate EXCEPT !.command = "none"],
     kind |-> "none", branch |-> "none", deletes |-> <<>>, todo |-> <<>>,
     delay |-> 0, then |-> "none", scan |-> FALSE, names |-> None,
     platform |-> "none"]

\* the message an update may be a reply to: one older than every update, or
\* one a delete_message_with_delay thread was started for.  delrule is the
\* one handler that reads reply_to_message.message_id (line 619).
reply_targets(m) ==
    IF m.reply /\ m.command = "/delrule"
    THEN {reply_to_message_id} \cup {units[k].msg : k \in 1..Len(units)}
    ELSE {reply_to_message_id}

\* the message id a handler passes to delete_message_if_admin
target_message_id(which, m, message_id) ==
    IF which = "replied" THEN m.reply_to ELSE message_id

\* the dispatcher hands the next update to message_handler, which runs the
\* command handler up to the return of its first delete_message_if_admin call,
\* or to its end if the branch calls none
message_handler_on(m) ==
    /\ pc = "idle"
    /\ started
    /\ nreq < MaxUpdates
    /\ LET b == dispatch(m)
           message_id == new_message_id
       IN  /\ hnd' = [id |-> message_id, update |-> m,
                      kind |-> b.kind, branch |-> b.branch,
                      deletes |-> b.deletes,
                      todo |-> IF b.deletes = <<>> THEN <<>> ELSE Tail(b.deletes),
                      delay |-> b.delay, then |-> b.then, scan |-> b.scan,
                      names |-> b.names, platform |-> b.platform]
           /\ UNCHANGED listener
           /\ IF b.scan
              THEN /\ text' = comment_text(m)
                   /\ good_check' = check_blacklist(comment_text(m))
              ELSE UNCHANGED <<text, good_check>>
           /\ IF b.deletes = <<>>
              THEN /\ req' = [id |-> nreq + 1, scope |-> m.chat, msg |-> message_id,
                              delay |-> 0, explain |-> FALSE]
                   /\ dmia_result' = NoResult
                   /\ pc' = "idle"
                   /\ UNCHANGED <<tg_groups, probes, units>>
              ELSE LET target == target_message_id(Head(b.deletes), m, message_id)
                   IN  /\ req' = [id |-> nreq + 1, scope |-> m.chat, msg |-> target,
                                  delay |-> b.delay, explain |-> b.then # "none"]
                       /\ delete_message_if_admin(m.chat, target, b.delay)
    /\ nreq' = nreq + 1
    /\ explained' = FALSE
    /\ UNCHANGED <<chat_member_status, word_blacklist, started>>
    /\ UNCHANGED floodVars

message_handler ==
    \E shape \in Updates : \E to \in reply_targets(shape) :
        message_handler_on([shape EXCEPT !.reply_to = to])

\* the words message_handler knows, as code points
CommandWords ==
    [c \in {"/start", "/id", "/comment", "/postlink", "/posttext", "/delrule",
            "/delcomment", "/appost", "/admin"} |->
        CASE c = "/start"      -> <<47, 115, 116, 97, 114, 116>>
          [] c = "/id"         -> <<47, 105, 100>>
          [] c = "/comment"    -> <<47, 99, 111, 109, 109, 101, 110, 116>>
          [] c = "/postlink"   -> <<47, 112, 111, 115, 116, 108, 105, 110, 107>>
          [] c = "/posttext"   -> <<47, 112, 111, 115, 116, 116, 101, 120, 116>>
          [] c = "/delrule"    -> <<47, 100, 101, 108, 114, 117, 108, 101>>
          [] c = "/delcomment" -> <<47, 100, 101, 108, 99, 111, 109, 109, 101, 110, 116>>
          [] c = "/appost"     -> <<47, 97, 112, 112, 111, 115, 116>>
          [] c = "/admin"      -> <<47, 97, 100, 109, 105, 110>>]
at_admin == <<64, 97, 100, 109, 105, 110>>      \* "@admin"

\* text.startswith("/")
startswith_slash(t) == Len(t) > 0 /\ t[1] = 47

\* text.split(' ', 1)[0]: the text up to its first space, all of it if it has
\* none
first_word(t) ==
    LET spaces == {i \in 1..Len(t) : t[i] = 32}
    IN  IF spaces = {} THEN t
        ELSE SubSeq(t, 1, (CHOOSE i \in spaces : \A j \in spaces : i <= j) - 1)

\* sub in t
contains(t, sub) ==
    \E i \in 0..(Len(t) - Len(sub)) : SubSeq(t, i + 1, i + Len(sub)) = sub

\* command = update.message.text.split(' ', 1)[0].strip()
command_word_unstripped(t) == first_word(t)
command_word(t) == strip(first_word(t))

\* lines 923-951: the branch of message_handler a text takes, named as in
\* Commands
command_of(t) ==
    IF t = None THEN "notext"
    ELSE IF startswith_slash(t)
         THEN IF \E c \in DOMAIN CommandWords : CommandWords[c] = command_word(t)
              THEN CHOOSE c \in DOMAIN CommandWords : CommandWords[c] = command_word(t)
              ELSE "/other"
    ELSE IF contains(t, at_admin) THEN "@admin"
    ELSE "plain"

\* the texts of the model: up to MaxTextPieces pieces written one after the
\* other.  The first is a known word, "@admin", " ", "\n", "x" or "/"; the
\* later ones are "@admin", " ", "\n" or "x".
MaxTextPieces == 4
TextPieces ==
    {CommandWords[c] : c \in DOMAIN CommandWords}
        \cup {at_admin, <<32>>, <<10>>, <<120>>, <<47>>}
LaterPieces == {at_admin, <<32>>, <<10>>, <<120>>}
RECURSIVE Joined(_)
Joined(pieces) == IF pieces = <<>> THEN <<>> ELSE Head(pieces) \o Joined(Tail(pieces))
MessageTexts ==
    {<<>>} \cup
    {p \o Joined(ps) : p \in TextPieces,
                       ps \in UNION {[1..n -> LaterPieces] : n \in 0..(MaxTextPieces - 1)}}

\* the first update of the process is a message with any text, or with none
text_update ==
    /\ nreq = 0
    /\ \E g \in Scopes, t \in MessageTexts \cup {None} :
          message_handler_on([GoodUpdate EXCEPT !.chat = g, !.command = command_of(t),
                                                !.raw = t])

\* the handler's next delete_message_if_admin call (delrule deletes the message
\* replied to, then the command)
handler_next_delete ==
    /\ pc = "returned"
    /\ hnd.todo # <<>>
    /\ LET target == target_message_id(Head(hnd.todo), hnd.update, hnd.id)
       IN  /\ req' = [req EXCEPT !.msg = target]
           /\ delete_message_if_admin(hnd.update.chat, target, hnd.delay)
    /\ hnd' = [hnd EXCEPT !.todo = Tail(@)]
    /\ UNCHANGED listener
    /\ UNCHANGED <<chat_member_status, nreq, explained>>
    /\ UNCHANGED <<floodVars, blacklistVars>>

\* the message the handler has sent for hnd: at once in a branch that requests
\* no deletion, else after the last delete_message_if_admin call has returned
sent_message ==
    IF hnd.deletes = <<>> \/ explained THEN hnd.then ELSE "none"

(***************************************************************************)
(* marvin.py: the check_new_reddit_posts thread.  Ages are in hours.       *)
(***************************************************************************)
MaxPosts == 3     \* submissions the stream yields in one behaviour

AdminGroupIds == {0, 7}                 \* bot_data.json: telegram.admin_group_id
UtcOffsets    == {0, 2}                 \* datetime.now() - datetime.utcnow(), hours
Ages          == {0, 71, 73, 95, 97}    \* now - submission.created_utc, hours
Authors       == {"marvin", "mod", "user"}    \* submission.author.name
me            == "marvin"               \* self.reddit.user.me().name
too_old_days  == 3                      \* the literal 3 of line 876

\* content/auto_pinned_posts.json
auto_pinned_posts ==
    << [text |-> "megathread", users |-> <<"mod", "marvin">>],
       [text |-> "weekly", users |-> <<"mod", "mod">>] >>

\* what the loop reads of a submission; title is the set of rule texts that
\* submission.title.lower() contains
Submissions ==
    [age : Ages, author : Authors, title : SUBSET {"megathread", "weekly"}]

NoListener ==
    [pc |-> "unstarted", admin_group_id |-> -1, posts |-> 0,
     post |-> [age |-> 0, author |-> "user", title |-> {}], utc_offset |-> 0,
     calls |-> <<>>, raised |-> FALSE]

\* timedelta.days of a difference of that many hours
days(hours) == hours \div 24

\* (now_time - created_time).days > 3, now_time being local time and
\* created_time UTC
too_old(submission, utc_offset) == days(submission.age + utc_offset) > too_old_days

\* pin_if_necessary(to_pin, submission): the pin_chat_message calls it makes
pin_if_necessary_every_match(submission) ==
    LET matches == {<<i, j>> \in (1..Len(auto_pinned_posts)) \X (1..2) :
                       /\ auto_pinned_posts[i].text \in submission.title
                       /\ auto_pinned_posts[i].users[j] = submission.author}
    IN  [k \in 1..Cardinality(matches) |-> "pin"]
pin_if_necessary(submission) ==
    IF \E i \in 1..Len(auto_pinned_posts) :
          /\ auto_pinned_posts[i].text \in submission.title
          /\ \E j \in 1..Len(auto_pinned_posts[i].users) :
                auto_pinned_posts[i].users[j] = submission.author
    THEN <<"pin">> ELSE <<>>

\* lines 873-888: the chat service calls of one pass of the loop, in order
relay(submission, admin_group_id, utc_offset) ==
    IF too_old(submission, utc_offset) THEN <<>>
    ELSE (IF admin_group_id # 0 THEN <<"admin_notice">> ELSE <<>>)
         \o (IF submission.author # me
             THEN <<"group_notice">> \o pin_if_necessary(submission)
             ELSE <<>>)

\* main(): bot_data.json is read and the listener thread started
start_listener ==
    /\ listener.pc = "unstarted"
    /\ \E id \in AdminGroupIds, off \in UtcOffsets :
          listener' = [listener EXCEPT !.pc = "running", !.admin_group_id = id,
                                       !.utc_offset = off]
    /\ UNCHANGED hnd
    /\ UNCHANGED <<floodVars, blacklistVars, deleteVars>>

\* one pass of the loop of check_new_reddit_posts: the stream yields the next
\* submission; a chat service call that raises ends the thread
check_new_reddit_posts ==
    /\ listener.pc = "running"
    /\ listener.posts < MaxPosts
    /\ \E submission \in Submissions :
          LET todo == relay(submission, listener.admin_group_id, listener.utc_offset)
          IN  \E made \in 0..Len(todo), ok \in BOOLEAN :
                 /\ ok => made = Len(todo)
                 /\ ~ok => made > 0
                 /\ listener' = [listener EXCEPT
                        !.posts = @ + 1, !.post = submission,
                        !.calls = SubSeq(todo, 1, made), !.raised = ~ok,
                        !.pc = IF ok THEN "running" ELSE "dead"]
    /\ UNCHANGED hnd
    /\ UNCHANGED <<floodVars, blacklistVars, deleteVars>>

\* MarvinBot.__init__; the bot's status in each chat is the chat's business
InitDelete ==
    /\ tg_groups = [g \in {} |-> [has_is_admin |-> FALSE, is_admin |-> FALSE]]
    /\ chat_member_status = [g \in Scopes |-> "member"]
    /\ pc = "idle"
    /\ nreq = 0
    /\ req = NoReq
    /\ dmia_result = NoResult
    /\ explained = FALSE
    /\ probes = [g \in Scopes |-> 0]
    /\ units = <<>>
    /\ hnd = NoUpdate
    /\ listener = NoListener

(***************************************************************************)
(* antiflood.py                                                            *)
(***************************************************************************)

\* is_in_timeframe(start, seconds_from_now), with t the datetime.now() it reads
is_in_timeframe_inclusive(start, seconds_from_now, t) == t - start <= seconds_from_now
is_in_timeframe(start, seconds_from_now, t) == t - start < seconds_from_now

\* _init_user(user_id), with t the datetime.now() it reads: the mapping after it
_init_user(user_id, t) ==
    [u \in DOMAIN _flood_data \cup {user_id} |->
        IF u = user_id THEN [begin |-> t, counter |-> 1] ELSE _flood_data[u]]

\* the comparison is_flooding returns on the counting path
flood_reached_strict(counter, limit) == counter > limit
flood_reached_exact(counter, limit) == counter = limit
flood_reached(counter, limit) == counter >= limit

\* one history entry: the clock when the call began and when it returned, the
\* branch it took, the user's record before and after, the value returned, and
\* the limits of the Antiflood object the call was made on
CallEntry(user_id, at, end, kind, post, ret) ==
    [user |-> user_id, at |-> at, end |-> end, kind |-> kind,
     time_limit |-> time_limit, count_limit |-> count_limit,
     pre  |-> IF user_id \in DOMAIN _flood_data THEN _flood_data[user_id] ELSE NoRecord,
     post |-> post[user_id], ret |-> ret]

\* is_flooding(user_id), first branch: user_id not in _flood_data
is_flooding_initial_compares(user_id) ==
    /\ user_id \notin DOMAIN _flood_data
    /\ _flood_data' = _init_user(user_id, now)
    /\ calls' = Append(calls, CallEntry(user_id, now, now, "initial", _flood_data',
                                        flood_reached(1, count_limit)))
    /\ UNCHANGED now
is_flooding_initial(user_id) ==
    /\ user_id \notin DOMAIN _flood_data
    /\ _flood_data' = _init_user(user_id, now)
    /\ calls' = Append(calls, CallEntry(user_id, now, now, "initial", _flood_data', FALSE))
    /\ UNCHANGED now

\* is_flooding(user_id), second branch: the record is out of the timeframe.
\* is_in_timeframe reads the clock, then _init_user reads it again.
is_flooding_reset_keeps_counter(user_id) ==
    /\ user_id \in DOMAIN _flood_data
    /\ ~is_in_timeframe(_flood_data[user_id].begin, time_limit, now)
    /\ \E d \in ClockDrift :
          /\ now + d <= MaxTime
          /\ now' = now + d
          /\ _flood_data' = [_flood_data EXCEPT ![user_id].begin = now']
    /\ calls' = Append(calls, CallEntry(user_id, now, now', "reset", _flood_data', FALSE))
is_flooding_reset(user_id) ==
    /\ user_id \in DOMAIN _flood_data
    /\ ~is_in_timeframe(_flood_data[user_id].begin, time_limit, now)
    /\ \E d \in ClockDrift :
          /\ now + d <= MaxTime
          /\ now' = now + d
          /\ _flood_data' = _init_user(user_id, now')
    /\ calls' = Append(calls, CallEntry(user_id, now, now', "reset", _flood_data', FALSE))

\* is_flooding(user_id), last two lines: count the call and compare
is_flooding_count_sliding(user_id) ==
    /\ user_id \in DOMAIN _flood_data
    /\ is_in_timeframe(_flood_data[user_id].begin, time_limit, now)
    /\ _flood_data' = [_flood_data EXCEPT ![user_id] =
                          [begin |-> now, counter |-> @.counter + 1]]
    /\ calls' = Append(calls,
          CallEntry(user_id, now, now, "count", _flood_data',
                    flood_reached(_flood_data'[user_id].counter, count_limit)))
    /\ UNCHANGED now
is_flooding_count_every_user(user_id) ==
    /\ user_id \in DOMAIN _flood_data
    /\ is_in_timeframe(_flood_data[user_id].begin, time_limit, now)
    /\ _flood_data' = [u \in DOMAIN _flood_data |->
                          [_flood_data[u] EXCEPT !.counter = @ + 1]]
    /\ calls' = Append(calls,
          CallEntry(user_id, now, now, "count", _flood_data',
                    flood_reached(_flood_data'[user_id].counter, count_limit)))
    /\ UNCHANGED now
is_flooding_count(user_id) ==
    /\ user_id \in DOMAIN _flood_data
    /\ is_in_timeframe(_flood_data[user_id].begin, time_limit, now)
    /\ _flood_data' = [_flood_data EXCEPT ![user_id].counter = @ + 1]
    /\ calls' = Append(calls,
          CallEntry(user_id, now, now, "count", _flood_data',
                    flood_reached(_flood_data'[user_id].counter, count_limit)))
    /\ UNCHANGED now

is_flooding_per_instance ==
    /\ Len(calls) < MaxCalls
    /\ \E user_id \in Users :
          IF \E i \in 1..Len(calls) :
                /\ calls[i].user = user_id
                /\ calls[i].time_limit = time_limit
                /\ calls[i].count_limit = count_limit
          THEN \/ is_flooding_reset(user_id)
               \/ is_flooding_count(user_id)
          ELSE /\ _flood_data' = _init_user(user_id, now)
               /\ calls' = Append(calls,
                     CallEntry(user_id, now, now, "initial", _flood_data', FALSE))
               /\ UNCHANGED now
    /\ UNCHANGED <<time_limit, count_limit>>
is_flooding ==
    /\ Len(calls) < MaxCalls
    /\ \E user_id \in Users :
          \/ is_flooding_initial(user_id)
          \/ is_flooding_reset(user_id)
          \/ is_flooding_count(user_id)
    /\ UNCHANGED <<time_limit, count_limit>>

\* time passes between calls
Tick ==
    /\ now < MaxTime
    /\ now' = now + 1
    /\ UNCHANGED <<_flood_data, time_limit, count_limit, calls>>

\* no Antiflood is constructed and no call is made (marvin.py imports none)
FloodUnused ==
    /\ _flood_data = [u \in {} |-> NoRecord]
    /\ time_limit = 0
    /\ count_limit = 0
    /\ now = 0
    /\ calls = <<>>

InitFlood ==
    /\ InitBlacklist
    /\ InitDelete
    /\ _flood_data = [u \in {} |-> NoRecord]
    /\ time_limit \in TimeLimits
    /\ count_limit \in CountLimits
    /\ now = 0
    /\ calls = <<>>

NextFlood ==
    \/ is_flooding /\ UNCHANGED <<blacklistVars, deleteVars, gateVars>>
    \/ Tick /\ UNCHANGED <<blacklistVars, deleteVars, gateVars>>

SpecFlood == InitFlood /\ [][NextFlood]_vars

(***************************************************************************)
(* Several Antiflood objects.  _flood_data is an attribute of the class    *)
(* (line 15) and __init__ assigns only self.time_limit and                 *)
(* self.count_limit, so every object reads and writes the one mapping.     *)
(* time_limit and count_limit are the limits of the object the next        *)
(* is_flooding call is made on.                                            *)
(***************************************************************************)
\* the Antiflood objects of one process
Limiters == {[time_limit |-> 2, count_limit |-> 3],
             [time_limit |-> 1, count_limit |-> 1]}

\* the caller turns to another of the objects
other_limiter ==
    /\ \E a \in Limiters :
          /\ <<a.time_limit, a.count_limit>> # <<time_limit, count_limit>>
          /\ time_limit' = a.time_limit
          /\ count_limit' = a.count_limit
    /\ UNCHANGED <<_flood_data, now, calls>>

InitLimiters ==
    /\ InitBlacklist
    /\ InitDelete
    /\ _flood_data = [u \in {} |-> NoRecord]
    /\ \E a \in Limiters : time_limit = a.time_limit /\ count_limit = a.count_limit
    /\ now = 0
    /\ calls = <<>>

NextLimiters ==
    \/ is_flooding /\ UNCHANGED <<blacklistVars, deleteVars, gateVars>>
    \/ Tick /\ UNCHANGED <<blacklistVars, deleteVars, gateVars>>
    \/ other_limiter /\ UNCHANGED <<blacklistVars, deleteVars, gateVars>>

SpecLimiters == InitLimiters /\ [][NextLimiters]_vars

(***************************************************************************)
(* Windows of the call history.  A window opens with the call that created *)
(* or reset the user's record and holds that user's later calls up to the  *)
(* next such call.                                                         *)
(***************************************************************************)
CallIds == 1..Len(calls)

\* the call that opened the window call i belongs to
WindowFirst(i) ==
    CHOOSE j \in 1..i :
        /\ calls[j].user = calls[i].user
        /\ calls[j].kind # "count"
        /\ \A k \in (j+1)..i : calls[k].user = calls[i].user => calls[k].kind = "count"

\* call i is the PosInWindow(i)-th call of its window
PosInWindow(i) ==
    Cardinality({j \in WindowFirst(i)..i : calls[j].user = calls[i].user})

\* call i came less than time_limit after its window's first call
InsideWindow(i) ==
    \/ i = WindowFirst(i)
    \/ calls[i].at - calls[WindowFirst(i)].post.begin < time_limit

\* C1 as claimed: with positive parameters, inside one window the k-th call
\* returns False for k < count_limit and the count_limit-th call returns True,
\* count_limit = 1 included.
C1_AsClaimed ==
    (count_limit >= 1 /\ time_limit >= 1) =>
        \A i \in CallIds : InsideWindow(i) =>
            /\ PosInWindow(i) < count_limit => calls[i].ret = FALSE
            /\ PosInWindow(i) = count_limit => calls[i].ret = TRUE

\* C1 amended: for count_limit >= 2 the k-th call of a window returns False for
\* k < count_limit and the count_limit-th returns True; for count_limit = 1 the
\* window's first call returns False and its second call returns True.
C1_WindowBoundary ==
    (count_limit >= 1 /\ time_limit >= 1) =>
        \A i \in CallIds : InsideWindow(i) =>
            /\ PosInWindow(i) < count_limit => calls[i].ret = FALSE
            /\ (count_limit >= 2 /\ PosInWindow(i) = count_limit) => calls[i].ret = TRUE
            /\ (count_limit = 1 /\ PosInWindow(i) = 1) => calls[i].ret = FALSE
            /\ (count_limit = 1 /\ PosInWindow(i) = 2) => calls[i].ret = TRUE

\* a window whose third call, the count_limit-th, returned True after two
\* calls that returned False
C1_Witness ==
    /\ count_limit = 3 /\ time_limit >= 1
    /\ \E i \in CallIds :
          /\ PosInWindow(i) = 3 /\ calls[i].ret = TRUE
          /\ WindowFirst(i) > 1
          /\ \A j \in WindowFirst(i)..(i-1) :
                calls[j].user = calls[i].user => calls[j].ret = FALSE

\* C2: a call for a user that has a record, made when now - begin >= time_limit
\* (equality included), replaces the record by counter = 1 and begin = the
\* clock _init_user reads, and returns False, whatever the counter was.
C2_StaleRecordReset ==
    \A i \in CallIds :
        (calls[i].pre # NoRecord /\ calls[i].at - calls[i].pre.begin >= time_limit) =>
            /\ calls[i].post = [begin |-> calls[i].end, counter |-> 1]
            /\ calls[i].at <= calls[i].end
            /\ calls[i].ret = FALSE

\* a record with counter >= 2 reset by a call made exactly time_limit after begin
C2_Witness ==
    \E i \in CallIds :
        /\ time_limit >= 1
        /\ calls[i].pre # NoRecord /\ calls[i].pre.counter >= 2
        /\ calls[i].at - calls[i].pre.begin = time_limit
        /\ calls[i].post.counter = 1 /\ calls[i].ret = FALSE

\* C19: the first is_flooding call made for a user creates its record with
\* counter = 1 and begin = the clock at the call, and returns False, for every
\* count_limit (0 and 1 included) and every time_limit.
C19_FirstCallCreatesRecord ==
    \A i \in CallIds :
        (\A j \in 1..(i-1) : calls[j].user # calls[i].user) =>
            /\ calls[i].kind = "initial"
            /\ calls[i].pre = NoRecord
            /\ calls[i].post = [begin |-> calls[i].at, counter |-> 1]
            /\ calls[i].ret = FALSE

\* with count_limit <= 1, a user's first call, made after the clock has moved
\* and after another user's calls, returned False
C19_Witness ==
    /\ count_limit <= 1
    /\ \E i \in CallIds :
          /\ i > 1 /\ calls[i].at > 0
          /\ \A j \in 1..(i-1) : calls[j].user # calls[i].user
          /\ calls[i].post.counter = 1 /\ calls[i].ret = FALSE

HasPrev(i) == \E j \in 1..(i-1) : calls[j].user = calls[i].user

\* that user's call before call i
PrevCall(i) ==
    CHOOSE j \in 1..(i-1) :
        /\ calls[j].user = calls[i].user
        /\ \A k \in (j+1)..(i-1) : calls[k].user # calls[i].user

\* call i is the first call its user made at or after time_limit from the
\* window start, and the user was flooding: its call before returned True
ResetsFlooding(i) ==
    /\ HasPrev(i)
    /\ calls[PrevCall(i)].ret = TRUE
    /\ calls[i].at - calls[i].pre.begin >= time_limit

C27_FloodingMonotoneInWindow ==
    /\ \A i \in CallIds : \A j \in CallIds :
          (i < j /\ calls[i].user = calls[j].user /\ WindowFirst(j) <= i
                 /\ calls[i].ret = TRUE) => calls[j].ret = TRUE
    /\ \A j \in CallIds :
          (HasPrev(j) /\ calls[PrevCall(j)].ret = TRUE /\ calls[j].ret = FALSE) =>
              /\ calls[j].kind = "reset"
              /\ calls[j].at - calls[j].pre.begin >= time_limit
              /\ calls[j].post.counter = 1

\* two calls of one window returned True, the second at a later clock value,
\* and the user's next call reset the window and returned False
C27_Witness ==
    /\ count_limit >= 1
    /\ \E i \in CallIds : \E j \in CallIds : \E r \in CallIds :
          /\ i < j /\ j < r
          /\ calls[i].user = calls[j].user /\ calls[j].user = calls[r].user
          /\ WindowFirst(j) <= i /\ calls[j].at > calls[i].at
          /\ calls[i].ret = TRUE /\ calls[j].ret = TRUE
          /\ calls[r].kind = "reset" /\ calls[r].ret = FALSE

\* C28: is_flooding(user_id) reads and writes the record of user_id only: a
\* call leaves every other user's record as it was, a user's record before a
\* call is the record its own call before left, and the value returned is
\* determined by that record, the clock and the limits.
C28_OnlyOwnRecord ==
    /\ [](\A i \in CallIds :
            /\ calls[i].pre = (IF HasPrev(i) THEN calls[PrevCall(i)].post ELSE NoRecord)
            /\ calls[i].ret =
                  (/\ calls[i].pre # NoRecord
                   /\ calls[i].at - calls[i].pre.begin < time_limit
                   /\ calls[i].pre.counter + 1 >= count_limit))
    /\ [][\A u \in DOMAIN _flood_data :
            (Len(calls') = Len(calls) + 1 /\ calls'[Len(calls')].user # u) =>
                (u \in DOMAIN _flood_data' /\ _flood_data'[u] = _flood_data[u])]_vars

\* while one user was flooding, the other user's first call returned False
\* and left the flooding user's record alone: its next call counted on from
\* the record its own call before had left
C28_Witness ==
    /\ Len(calls) = 4 /\ count_limit = 2
    /\ calls[1].user = "u2" /\ calls[2].user = "u2" /\ calls[4].user = "u2"
    /\ calls[3].user = "u1"
    /\ calls[2].ret = TRUE
    /\ calls[3].kind = "initial" /\ calls[3].ret = FALSE
    /\ calls[4].kind = "count" /\ calls[4].pre = calls[2].post
    /\ calls[4].post.counter = 3

\* call i was made on the same Antiflood object as call j
SameLimiter(i, j) ==
    /\ calls[i].time_limit = calls[j].time_limit
    /\ calls[i].count_limit = calls[j].count_limit

\* C29: the flood records are one mapping shared by every Antiflood object:
\* a call finds the record the user's call before left, whichever object
\* that call was made on, takes the first-call branch only when no object
\* has been called for the user, and compares the shared record with the
\* limits of the object it is made on.
C29_RecordsSharedByLimiters ==
    \A i \in CallIds :
        /\ calls[i].pre = (IF HasPrev(i) THEN calls[PrevCall(i)].post ELSE NoRecord)
        /\ calls[i].kind = "initial" <=> ~HasPrev(i)
        /\ calls[i].ret =
              (/\ calls[i].pre # NoRecord
               /\ calls[i].at - calls[i].pre.begin < calls[i].time_limit
               /\ calls[i].pre.counter + 1 >= calls[i].count_limit)

\* the first call made on one object for a user returned True, on the count
\* a call on the other object had left, and a later call on the stricter
\* object reset the window the other object was counting in
C29_Witness ==
    \E i \in CallIds : \E j \in CallIds : \E r \in CallIds :
        /\ i < j /\ j < r
        /\ calls[i].user = calls[j].user /\ calls[j].user = calls[r].user
        /\ calls[i].kind = "initial" /\ calls[i].count_limit = 3
        /\ ~SameLimiter(i, j)
        /\ \A k \in 1..(j-1) : calls[k].user = calls[j].user => SameLimiter(k, i)
        /\ calls[j].kind = "count" /\ calls[j].ret = TRUE
        /\ calls[r].kind = "reset" /\ SameLimiter(r, j)
        /\ calls[r].at - calls[r].pre.begin < calls[i].time_limit

\* C30 as claimed: is_flooding returns True only when the counter is strictly
\* greater than count_limit, and a call adds to the counter only when it
\* returns False.
C30_AsClaimed ==
    \A i \in CallIds :
        /\ calls[i].ret = TRUE => calls[i].post.counter > count_limit
        /\ (calls[i].kind = "count" /\ calls[i].post.counter = calls[i].pre.counter + 1) =>
              calls[i].ret = FALSE

\* C15 as claimed: constructing the rate limiter with a non-positive timeframe
\* or count_limit fails, so no is_flooding call is ever made on a limiter
\* whose time_limit or count_limit is <= 0.
C15_AsClaimed ==
    calls # <<>> => (time_limit > 0 /\ count_limit > 0)

(***************************************************************************)
(* The blacklist on its own.                                               *)
(***************************************************************************)
InitBlacklistOnly == InitBlacklist /\ InitDelete /\ FloodUnused

NextBlacklist ==
    \/ main_load_blacklist /\ UNCHANGED <<floodVars, deleteVars, gateVars>>
    \/ call_check_blacklist /\ UNCHANGED <<floodVars, deleteVars, gateVars>>

SpecBlacklist == InitBlacklistOnly /\ [][NextBlacklist]_vars

\* the whitespace-delimited tokens of a text, as a set
Tokens(t) ==
    {SubSeq(t, i, j) : <<i, j>> \in
        {p \in (1..Len(t)) \X (1..Len(t)) :
            /\ p[1] <= p[2]
            /\ \A k \in p[1]..p[2] : t[k] \notin Whitespace
            /\ (p[1] = 1 \/ t[p[1] - 1] \in Whitespace)
            /\ (p[2] = Len(t) \/ t[p[2] + 1] \in Whitespace)}}

BlacklistSet == {word_blacklist[i] : i \in 1..Len(word_blacklist)}

\* C3: check_blacklist(text) returns a token iff the tokens of the text and the
\* entries of the sorted blacklist have a common element (exact equality), and
\* the token it returns is the smallest common one; otherwise it returns None.
C3_ScanIsSmallestCommonToken ==
    started =>
        LET common == Tokens(text) \cap BlacklistSet
        IN  /\ (good_check # None) <=> (common # {})
            /\ good_check # None =>
                  /\ good_check \in common
                  /\ \A c \in common : ~StrLess(c, good_check)

\* a scan that returned the smaller of two common tokens, which is not the
\* first token of the text
C3_Witness ==
    /\ started
    /\ Cardinality(Tokens(text) \cap BlacklistSet) = 2
    /\ good_check # None
    /\ good_check # split(text)[1]

(***************************************************************************)
\* the walk of the last check_blacklist call
LastWalk == walk_steps(sort(split(text)), word_blacklist, 1, 1)

\* the iterations of the while loop in a walk: every test but one that leaves
\* the loop
Iterations(steps) ==
    Cardinality({i \in 1..Len(steps) : steps[i].does # "left"})

\* C38: the walk of check_blacklist over n words and m entries is finite and
\* has at most n + m iterations; it starts at the first word and the first
\* entry, every iteration but a returning one advances exactly one of
\* index_t, index_b by one, the loop is left at the first test with a list
\* exhausted, and then, and only then, None is returned.
C38_WalkTerminates ==
    started =>
        LET words == sort(split(text))
            n == Len(words)
            m == Len(word_blacklist)
            steps == LastWalk
            last == steps[Len(steps)]
            exhausted(s) == s.index_t > n \/ s.index_b > m
        IN  /\ Iterations(steps) <= n + m
            /\ steps[1].index_t = 1 /\ steps[1].index_b = 1
            /\ \A i \in 1..(Len(steps) - 1) :
                  /\ steps[i].does \in {"index_t", "index_b"}
                  /\ ~exhausted(steps[i])
                  /\ steps[i+1].index_t =
                        steps[i].index_t + (IF steps[i].does = "index_t" THEN 1 ELSE 0)
                  /\ steps[i+1].index_b =
                        steps[i].index_b + (IF steps[i].does = "index_b" THEN 1 ELSE 0)
            /\ last.does \in {"left", "return"}
            /\ last.does = "left" <=> exhausted(last)
            /\ last.does = "left" <=> good_check = None
            /\ last.does = "return" => good_check = words[last.index_t]

\* a scan of two words against two entries that advanced index_t, then
\* index_b, then index_t again and left the loop with the words exhausted
C38_Witness ==
    /\ started
    /\ Len(sort(split(text))) = 2 /\ Len(word_blacklist) = 2
    /\ Len(LastWalk) = 4 /\ Iterations(LastWalk) = 3
    /\ LastWalk[1].does = "index_t" /\ LastWalk[2].does = "index_b"
    /\ LastWalk[4].does = "left" /\ LastWalk[4].index_t = 3
    /\ good_check = None

(* The main path and the deletion threads.                                 *)
(***************************************************************************)
Init ==
    /\ InitBlacklist
    /\ FloodUnused
    /\ InitDelete

Next ==
    \/ handle_update
    \/ handler_return
    \/ \E k \in 1..MaxUpdates : delete_message_with_delay(k)
    \/ Second
    \/ set_status

Spec == Init /\ [][Next]_vars

\* a process either is the bot or drives a rate limiter
NextProcess ==
    \/ InitDelete /\ NextFlood
    \/ FloodUnused /\ Next

SpecProcess == InitFlood /\ [][NextProcess]_vars

\* the scheduler runs every started thread, and time passes
SpecFair ==
    /\ Spec
    /\ WF_vars(Second)
    /\ \A k \in 1..MaxUpdates : WF_vars(delete_message_with_delay(k))

(***************************************************************************)
(* message_handler on the main path, with the deletion threads.            *)
(***************************************************************************)
\* content/words_blacklist.json in the runs of message_handler: ["a", "A"]
StartupBlacklists == {<<<<97>>, <<65>>>>}

\* main() up to updater.start_polling(): the words of the file are appended
\* to word_blacklist, the list is sorted, and the dispatcher starts
main_startup_unsorted ==
    /\ ~started
    /\ \E raw \in StartupBlacklists : word_blacklist' = word_blacklist \o raw
    /\ started' = TRUE
    /\ UNCHANGED <<text, good_check>>
    /\ UNCHANGED <<floodVars, deleteVars, gateVars>>
main_startup ==
    /\ ~started
    /\ \E raw \in StartupBlacklists : word_blacklist' = sort(word_blacklist \o raw)
    /\ started' = TRUE
    /\ UNCHANGED <<text, good_check>>
    /\ UNCHANGED <<floodVars, deleteVars, gateVars>>

\* MarvinBot.__init__; no Antiflood exists
InitGate ==
    /\ InitBlacklist
    /\ FloodUnused
    /\ InitDelete

NextGate ==
    \/ main_startup
    \/ message_handler
    \/ handler_next_delete
    \/ handler_return
    \/ \E k \in 1..MaxUpdates : delete_message_with_delay(k)
    \/ Second
    \/ set_status

SpecGate == InitGate /\ [][NextGate]_vars

(***************************************************************************)
(* The moderation commands on an update of any shape.                      *)
(***************************************************************************)
ModerationCommands == {"/delrule", "/delcomment", "/appost"}

\* a moderation command with every combination of what its handler reads
ModerationUpdates ==
    {[GoodUpdate EXCEPT !.command = c, !.chat = g, !.from_admin = a, !.reply = r,
                        !.urls = n, !.reddit_link = l, !.own_subreddit = o,
                        !.rule = k] :
        c \in ModerationCommands, g \in Scopes, a \in BOOLEAN, r \in BOOLEAN,
        n \in {0, 1}, l \in BOOLEAN, o \in BOOLEAN,
        k \in {"missing", "notint", "unknown", "known"}}

\* the first update of the process is a moderation command
moderation_command ==
    /\ nreq = 0
    /\ \E m \in ModerationUpdates : message_handler_on(m)

NextModeration ==
    \/ main_startup
    \/ moderation_command
    \/ handler_next_delete
    \/ handler_return
    \/ set_status

SpecModeration == InitGate /\ [][NextModeration]_vars

(***************************************************************************)
(* message_handler on a message of any text.                               *)
(***************************************************************************)
NextDispatch ==
    \/ main_startup
    \/ text_update
    \/ handler_next_delete
    \/ handler_return
    \/ \E k \in 1..MaxUpdates : delete_message_with_delay(k)
    \/ Second
    \/ set_status

SpecDispatch == InitGate /\ [][NextDispatch]_vars

(***************************************************************************)
(* The listener thread.                                                    *)
(***************************************************************************)
NextListener ==
    \/ main_startup
    \/ start_listener
    \/ check_new_reddit_posts

SpecListener == InitGate /\ [][NextListener]_vars

(***************************************************************************)
(* Properties of delete_message_if_admin and of the units it starts.       *)
(***************************************************************************)
UnitIds == 1..Len(units)

\* the units started by the call of update i
UnitsOf(i) == {k \in UnitIds : units[k].req = i}

\* C4: over any sequence of delete_message_if_admin calls, get_chat_member is
\* called for the bot at most once per chat id.
C4_ProbeOncePerScope == \A g \in Scopes : probes[g] <= 1

\* a second call for a chat, answered from the cache after the one probe
C4_Witness ==
    /\ nreq >= 2
    /\ ~dmia_result.probed /\ dmia_result.gate # "none"
    /\ probes[req.scope] = 1

\* C5: a call with seconds_delay <= 0 for a chat that resolves to not
\* privileged, probed or cached, calls delete_message neither at once nor in a
\* unit, and raises nothing.
C5_NotPrivilegedNoDelete ==
    (req.delay <= 0 /\ dmia_result.gate = "False") =>
        /\ dmia_result.deleted = 0
        /\ dmia_result.started = 0
        /\ dmia_result.raised = "no"
        /\ UnitsOf(req.id) = {}
        /\ \A k \in UnitIds : units[k].delay > 0

\* a cached not-privileged answer for an immediate deletion, the handler done,
\* while the bot has meanwhile been made an administrator of that chat
C5_Witness ==
    /\ req.delay <= 0 /\ dmia_result.gate = "False" /\ ~dmia_result.probed
    /\ pc = "idle" /\ explained
    /\ is_sender_admin(chat_member_status[req.scope])

\* C6 as claimed: a call with seconds_delay > 0 whose gate resolved, to
\* privileged or not, has started the unit that deletes after the delay.
C6_AsClaimed ==
    (req.delay > 0 /\ dmia_result.gate \in {"True", "False"}) =>
        Cardinality(UnitsOf(req.id)) = 1

\* C6 amended: a call with seconds_delay > 0 starts exactly one unit, for its
\* chat, message and delay, if the chat resolves to privileged, and none if it
\* resolves to not privileged; a unit calls delete_message at most once, when
\* it ends, and not before its delay has elapsed.
C6_DelayedDeleteOnlyIfPrivileged ==
    /\ (req.delay > 0 /\ dmia_result.gate = "True") =>
          /\ dmia_result.started = 1 /\ dmia_result.deleted = 0
          /\ Cardinality(UnitsOf(req.id)) = 1
          /\ \A k \in UnitsOf(req.id) :
                /\ units[k].scope = req.scope
                /\ units[k].msg = req.msg
                /\ units[k].delay = req.delay
    /\ (req.delay > 0 /\ dmia_result.gate = "False") =>
          /\ dmia_result.started = 0 /\ dmia_result.deleted = 0
          /\ UnitsOf(req.id) = {}
    /\ \A k \in UnitIds :
          /\ units[k].deletes = (IF units[k].pc = "done" THEN 1 ELSE 0)
          /\ units[k].deletes = 1 => units[k].elapsed >= units[k].delay

\* a delayed deletion asked for a not-privileged chat has returned with no
\* unit, beside an earlier unit that has deleted
C6_Witness ==
    /\ req.delay > 0 /\ dmia_result.gate = "False" /\ pc = "returned"
    /\ UnitsOf(req.id) = {}
    /\ \E k \in UnitIds : units[k].pc = "done" /\ units[k].deletes = 1

\* C7 as claimed: the gate is evaluated when the unit acts, so a unit calls
\* delete_message only while the bot is privileged in the chat.
C7_AsClaimed ==
    \A k \in UnitIds : units[k].deletes >= 1 => units[k].admin_then

\* C7 amended: the gate is evaluated once, when delete_message_if_admin is
\* called: a unit exists only for a chat whose cached answer is privileged, and
\* a unit that ends has called delete_message, whatever the bot's status then.
C7_GateAtScheduling ==
    \A k \in UnitIds :
        /\ units[k].scope \in DOMAIN tg_groups
        /\ tg_groups[units[k].scope].has_is_admin
        /\ tg_groups[units[k].scope].is_admin
        /\ units[k].pc = "done" => units[k].deletes = 1

\* a unit deleted after the bot had lost its rights in the chat
C7_Witness ==
    \E k \in UnitIds :
        /\ units[k].pc = "done" /\ units[k].deletes = 1
        /\ ~units[k].admin_then

\* no step cancels, reschedules or repeats a unit
UnitsKept ==
    /\ Len(units') >= Len(units)
    /\ \A k \in UnitIds :
          /\ units'[k].req = units[k].req
          /\ units'[k].scope = units[k].scope
          /\ units'[k].msg = units[k].msg
          /\ units'[k].delay = units[k].delay
          /\ units'[k].elapsed >= units[k].elapsed
          /\ units'[k].deletes >= units[k].deletes
          /\ units[k].pc = "done" => units'[k] = units[k]

\* C8: under fair scheduling every started unit ends having called
\* delete_message for its chat and message exactly once, not before its delay
\* has elapsed, and no step cancels, reschedules or repeats it.
C8_UnitRunsOnceAfterDelay ==
    /\ \A i \in 1..MaxUpdates :
          (UnitsOf(i) # {}) ~>
              (\E k \in UnitsOf(i) : units[k].pc = "done" /\ units[k].deletes = 1)
    /\ [][UnitsKept]_vars
    /\ [](\A k \in UnitIds :
            /\ units[k].deletes <= 1
            /\ units[k].deletes = 1 => units[k].elapsed >= units[k].delay)

\* a unit with a delay of 2 has deleted once, after a later update was handled
C8_Witness ==
    \E k \in UnitIds :
        /\ units[k].pc = "done" /\ units[k].deletes = 1
        /\ units[k].delay = 2 /\ units[k].elapsed = 2
        /\ nreq > units[k].req

\* C9: the call that starts a unit returns to its handler with the unit still
\* asleep and nothing deleted; the handler can then finish, and the main path
\* can take the next update, whatever units are pending.
C9_SchedulingDoesNotBlock ==
    /\ [][Len(units') > Len(units) =>
            /\ pc' = "returned"
            /\ units'[Len(units')].pc = "sleeping"
            /\ units'[Len(units')].deletes = 0]_vars
    /\ [](pc = "returned" => ENABLED handler_return)
    /\ []((pc = "idle" /\ nreq < MaxUpdates) => ENABLED handle_update)

\* the update after the one that scheduled a deletion has been handled to the
\* end while that deletion is still pending
C9_Witness ==
    /\ pc = "idle" /\ nreq >= 2
    /\ \E k \in UnitIds :
          /\ units[k].req < nreq
          /\ units[k].pc = "sleeping" /\ units[k].deletes = 0

\* C10: a call with seconds_delay <= 0 for a privileged chat calls
\* delete_message itself, once, before it returns (so before the handler sends
\* its explanation), and starts no unit.
C10_SyncDeleteBeforeReturn ==
    (req.delay <= 0 /\ dmia_result.gate = "True") =>
        /\ dmia_result.deleted = 1
        /\ dmia_result.started = 0
        /\ UnitsOf(req.id) = {}
        /\ pc = "returned" => dmia_result.raised = "no"
        /\ explained => dmia_result.raised = "no"

\* an immediate deletion in a privileged chat, done before the explanation
C10_Witness ==
    /\ req.delay <= 0 /\ dmia_result.gate = "True"
    /\ dmia_result.deleted = 1 /\ dmia_result.raised = "no"
    /\ pc = "idle" /\ explained

\* C18: once is_admin has been stored for a chat, no step changes or removes
\* it, whatever the bot's status in the chat becomes; every later call for the
\* chat decides by the stored value and does not probe.
C18_StoredPrivilegeNeverChanges ==
    /\ [][\A g \in DOMAIN tg_groups : tg_groups[g].has_is_admin =>
            (g \in DOMAIN tg_groups' /\ tg_groups'[g] = tg_groups[g])]_vars
    /\ [](\A g \in DOMAIN tg_groups : probes[g] = 1)
    /\ []((dmia_result # NoResult /\ ~dmia_result.probed /\ dmia_result.gate # "none") =>
            /\ tg_groups[req.scope].has_is_admin
            /\ dmia_result.gate = (IF tg_groups[req.scope].is_admin THEN "True" ELSE "False"))

\* the bot was an administrator at the first call for the chat and is not any
\* more: a later call still found it privileged and called delete_message
C18_Witness ==
    /\ dmia_result # NoResult /\ ~dmia_result.probed
    /\ dmia_result.gate = "True" /\ dmia_result.deleted = 1
    /\ ~is_sender_admin(chat_member_status[req.scope])

\* C24: no step removes a user from _flood_data or a chat from tg_groups, so
\* the set of tracked users and the set of cached chats only grow, and every
\* flood record has counter >= 1.
C24_MappingsOnlyGrow ==
    /\ [](\A u \in DOMAIN _flood_data : _flood_data[u].counter >= 1)
    /\ [][/\ DOMAIN _flood_data \subseteq DOMAIN _flood_data'
          /\ DOMAIN tg_groups \subseteq DOMAIN tg_groups']_vars

\* both users are tracked, one of them after a reset of a record that had
\* counted several calls, the other with a record older than time_limit
C24_Witness ==
    /\ DOMAIN _flood_data = Users
    /\ \E r \in CallIds :
          /\ calls[r].kind = "reset" /\ calls[r].pre.counter >= 2
          /\ _flood_data[calls[r].user].counter = 1
          /\ \E u \in Users :
                u # calls[r].user /\ now - _flood_data[u].begin > time_limit

\* C31 as claimed: every chat in tg_groups has its stored is_admin, also
\* after a first call whose get_chat_member raised.
C31_AsClaimed == \A g \in DOMAIN tg_groups : tg_groups[g].has_is_admin

\* the later call of C31: the chat was cached by a call whose probe raised,
\* and this call fails on the missing attribute without probing
C31_LaterCallFails ==
    /\ dmia_result.raised = "attribute" /\ ~dmia_result.probed
    /\ req.scope \in DOMAIN tg_groups /\ ~tg_groups[req.scope].has_is_admin
    /\ probes[req.scope] = 1

\* what the last call did: synchronous delete_message calls, threads started,
\* and the threads there are for it, each for the chat, message and delay of
\* the call
DeletionBehaviour ==
    [deleted |-> dmia_result.deleted,
     started |-> dmia_result.started,
     threads |-> Cardinality(UnitsOf(req.id)),
     as_asked |-> \A k \in UnitsOf(req.id) :
                      /\ units[k].scope = req.scope /\ units[k].msg = req.msg
                      /\ units[k].delay = req.delay]

\* lines 195-201 and 203-209 read as one table of is_admin and seconds_delay
ExpectedBehaviour(is_admin, seconds_delay) ==
    [deleted |-> IF is_admin /\ seconds_delay <= 0 THEN 1 ELSE 0,
     started |-> IF is_admin /\ seconds_delay > 0 THEN 1 ELSE 0,
     threads |-> IF is_admin /\ seconds_delay > 0 THEN 1 ELSE 0,
     as_asked |-> TRUE]

\* C33: a call that has its is_admin value, probed in this call or read from
\* tg_groups, does what that value and seconds_delay say and nothing else:
\* nothing if not admin, one synchronous delete_message if the delay is <= 0,
\* one thread started if the delay is > 0.  The call probes exactly when the
\* chat was not in tg_groups before it, and that is the only difference.
C33_FirstAndLaterCallActAlike ==
    /\ [](dmia_result.gate \in {"True", "False"} =>
            DeletionBehaviour = ExpectedBehaviour(dmia_result.gate = "True", req.delay))
    /\ [][nreq' = nreq + 1 =>
            /\ dmia_result'.probed <=> req'.scope \notin DOMAIN tg_groups
            /\ probes'[req'.scope] = probes[req'.scope]
                                        + (IF dmia_result'.probed THEN 1 ELSE 0)]_vars

\* the second call for a chat read is_admin from tg_groups and started its
\* thread with a delay of 2, as the first call for that chat had done after
\* probing
C33_Witness ==
    \E k1, k2 \in UnitIds :
        /\ units[k1].req = 1 /\ units[k2].req = 2 /\ req.id = 2
        /\ units[k1].scope = units[k2].scope
        /\ units[k1].delay = 2 /\ units[k2].delay = 2
        /\ ~dmia_result.probed /\ dmia_result.gate = "True"
        /\ probes[req.scope] = 1

\* unit k's delete_message call raises in this step
UnitFails(k) ==
    /\ k \in UnitIds
    /\ units[k].pc = "sleeping"
    /\ units'[k].pc = "done" /\ units'[k].outcome = "error"

\* C16: when delete_message raises inside a unit, the unit ends there with its
\* one call made (no retry, then or later); the step changes nothing of the
\* main path (the handler position, the request that started the unit and its
\* result, the messages sent, the cached chats) and no other unit; afterwards
\* the main path can still take updates and every other pending unit still
\* runs to its own delete.
C16_UnitFailureIsContained ==
    /\ [][\A k \in 1..MaxUpdates : UnitFails(k) =>
            /\ units'[k].deletes = 1
            /\ <<pc, nreq, req, dmia_result, explained, tg_groups, probes>>' =
                   <<pc, nreq, req, dmia_result, explained, tg_groups, probes>>
            /\ Len(units') = Len(units)
            /\ \A j \in UnitIds \ {k} : units'[j] = units[j]]_vars
    /\ [](\A k \in UnitIds : units[k].outcome = "error" =>
            (units[k].pc = "done" /\ units[k].deletes = 1))
    /\ [][\A k \in UnitIds : units[k].outcome = "error" => units'[k] = units[k]]_vars
    /\ []((\E k \in UnitIds : units[k].outcome = "error") =>
            /\ (pc = "idle" /\ nreq < MaxUpdates) => ENABLED handle_update
            /\ pc = "returned" => ENABLED handler_return)
    /\ \A j \in 1..MaxUpdates :
          (j \in UnitIds /\ \E k \in UnitIds \ {j} : units[k].outcome = "error")
              ~> (j \in UnitIds /\ units[j].pc = "done" /\ units[j].deletes = 1)

\* a unit's delete failed; a later update was then handled to its end, and the
\* unit that update started has deleted
C16_Witness ==
    \E k, j \in UnitIds :
        /\ units[k].outcome = "error" /\ units[k].pc = "done"
        /\ units[j].req > units[k].req
        /\ units[j].outcome = "ok" /\ units[j].elapsed > units[k].delay
        /\ pc = "idle"

(***************************************************************************)
(* Properties of message_handler and the command handlers.                 *)
(***************************************************************************)
\* the last update reached a handler
Handled == hnd.update.command \notin {"none", "notext"}

\* C11 as claimed: every update a handler is given has first been rate-checked:
\* is_flooding has been called for its sender, before any blacklist scan,
\* platform action or message.  (message_handler calls no is_flooding, and
\* marvin.py constructs no Antiflood.)
C11_AsClaimed ==
    Handled => \E i \in CallIds : calls[i].user = hnd.update.sender

\* the handler of the last update is over: it returned or an exception left it
HandlerOver == pc = "idle" /\ hnd.todo = <<>>

\* the comment handler scanned the comment and the scan returned a token
ScanHit == hnd.update.command = "/comment" /\ hnd.scan /\ good_check # None

\* a delete_message_if_admin call has been made for the command message of the
\* last update, with the default delay
DeletionRequested ==
    /\ hnd.deletes # <<>>
    /\ dmia_result # NoResult
    /\ req.id = hnd.id /\ req.scope = hnd.update.chat /\ req.delay = hnd.delay
    /\ hnd.todo = <<>> => req.msg = hnd.id

\* C12 as claimed: when the scan of a comment returns a token, the deletion of
\* the command message is requested with delay 0, the message naming that
\* token is sent to the user, and the comment is not submitted.
C12_AsClaimed ==
    (ScanHit /\ HandlerOver) =>
        /\ DeletionRequested /\ req.delay = 0
        /\ sent_message = "blacklisted" /\ hnd.names = good_check
        /\ hnd.platform = "none"

\* C12 amended: when the scan of a comment returns a token, the deletion of the
\* command message is requested with delay 0 and the comment is not submitted;
\* if that request returns without raising, the handler then sends the message
\* naming exactly the returned token, a blacklisted word of the comment; if it
\* raises, the handler is left and no message is sent.
C12_ScanHitRejects ==
    ScanHit =>
        /\ hnd.kind = "reject"
        /\ DeletionRequested /\ req.delay = 0 /\ req.msg = hnd.id
        /\ hnd.platform = "none"
        /\ hnd.names = good_check
        /\ hnd.names \in Tokens(text) \cap BlacklistSet
        /\ sent_message \in {"none", "blacklisted"}
        /\ (HandlerOver /\ dmia_result.raised = "no") => sent_message = "blacklisted"
        /\ dmia_result.raised # "no" => (pc = "idle" /\ sent_message = "none")

\* the comment "a A" was rejected for "A", which is not its first word, the
\* message was deleted by the bot and the explanation sent
C12_Witness ==
    /\ ScanHit /\ HandlerOver
    /\ hnd.names = <<65>> /\ hnd.names # Head(split(hnd.update.body))
    /\ dmia_result.gate = "True" /\ dmia_result.deleted = 1
    /\ sent_message = "blacklisted"

\* C13: a command handler (comment, postlink, posttext, delrule, delcomment,
\* appost, admin) that ends in a rejection, neither doing what the command asks
\* for nor left by an exception, has called delete_message_if_admin for the command
\* message, with the default delay, before anything is sent and before it
\* returns: no rejection branch ends without that call.
C13_RejectionRequestsDeletion ==
    (/\ hnd.update.command \in {"/comment", "/postlink", "/posttext", "/delrule",
                                 "/delcomment", "/appost", "/admin", "@admin"}
     /\ hnd.kind \notin {"accept", "raise", "error"}) =>
        /\ hnd.kind = "reject"
        /\ hnd.deletes = <<"command">>
        /\ DeletionRequested /\ req.msg = hnd.id /\ req.delay = 0
        /\ hnd.platform = "none"
        /\ sent_message # "none" => (dmia_result.raised = "no" /\ HandlerOver)

\* /posttext with a title of fewer than 6 characters was rejected in the
\* authorized chat: the deletion was requested, the bot is no administrator
\* there, and the explanation has been sent
C13_Witness ==
    /\ hnd.kind = "reject" /\ hnd.update.command = "/posttext"
    /\ hnd.branch = "short_title"
    /\ DeletionRequested /\ dmia_result.gate = "False"
    /\ HandlerOver /\ sent_message = "short_title"

\* C14: the /comment handler calls submission.reply only for an update sent in
\* an authorized chat, replying to a message with a link that is a valid link
\* of a post of the configured subreddit which is not locked, with a comment
\* that is not empty and whose scan returned no token (it has no blacklisted
\* word); it then requests no deletion and starts no unit.
C14_ReplyOnlyWhenAccepted ==
    (hnd.update.command = "/comment" /\ hnd.platform = "reply") =>
        /\ is_message_in_correct_group(hnd.update.chat)
        /\ hnd.update.reply /\ hnd.update.urls >= 1 /\ hnd.update.reddit_link
        /\ strip(hnd.update.body) # <<>>
        /\ hnd.update.own_subreddit /\ ~hnd.update.locked
        /\ hnd.scan /\ good_check = None
        /\ text = comment_text(hnd.update)
        /\ Tokens(text) \cap BlacklistSet = {}
        /\ hnd.kind = "accept"
        /\ hnd.deletes = <<>> /\ dmia_result = NoResult /\ pc = "idle"
        /\ UnitsOf(hnd.id) = {}

\* the comment "aa" was submitted and confirmed in the chat, after an earlier
\* update whose comment was rejected
C14_Witness ==
    /\ hnd.update.command = "/comment" /\ hnd.platform = "reply"
    /\ hnd.update.body = <<97, 97>>
    /\ sent_message = "comment_added"
    /\ nreq = 2 /\ tg_groups # <<>>

\* C17: when delete_message raises on the synchronous path, the exception
\* leaves delete_message_if_admin and the handler after that one call (no
\* retry, no unit): the handler requests no further deletion and sends
\* nothing, so the text of that branch is never sent.
C17_SyncFailureAborts ==
    dmia_result.raised = "delete" =>
        /\ req.delay <= 0 /\ dmia_result.gate = "True"
        /\ dmia_result.deleted = 1 /\ dmia_result.started = 0
        /\ UnitsOf(req.id) = {}
        /\ pc = "idle" /\ ~explained
        /\ hnd.deletes # <<>> /\ sent_message = "none"
        /\ ~ENABLED handler_next_delete /\ ~ENABLED handler_return

\* the comment had a blacklisted word, the delete of the command message
\* failed at the first call for the chat, and the user was told nothing
C17_Witness ==
    /\ dmia_result.raised = "delete" /\ dmia_result.probed
    /\ hnd.branch = "blacklisted" /\ hnd.then = "blacklisted"
    /\ pc = "idle" /\ sent_message = "none"

\* list is in the order list.sort() leaves
IsSorted(list) ==
    \A i \in 1..Len(list) : \A j \in 1..Len(list) :
        i < j => ~StrLess(list[j], list[i])

\* C23: once main() has loaded it, the blacklist is sorted and no step changes
\* it again, contents and order: not check_blacklist, not a command handler,
\* not a deletion thread; and the text check_blacklist was given is, after
\* the call, the comment text the handler built.
C23_BlacklistFrozenAfterLoad ==
    /\ [](started => IsSorted(word_blacklist))
    /\ [][started => word_blacklist' = word_blacklist]_vars
    /\ [](hnd.scan => text = comment_text(hnd.update))

\* the file held "a" before "A"; after the load put "A" first, two updates
\* were handled, the second a comment whose scan found a blacklisted word
C23_Witness ==
    /\ started /\ word_blacklist = <<<<65>>, <<97>>>>
    /\ nreq = 2 /\ HandlerOver
    /\ ScanHit /\ good_check \in {<<65>>, <<97>>}

\* the last update is a command message with an unknown first word
UnknownCommand == hnd.id > 0 /\ hnd.update.command = "/other"

\* C25: an unknown "/" command makes message_handler call
\* delete_message_if_admin once, for the command message, with delay 5; no
\* message is sent and nothing is deleted during the call; the call starts
\* one delete_message_with_delay thread, for that message and delay, if the
\* chat resolves to privileged (the stored answer of the first probe), and
\* none otherwise.
C25_UnknownCommandCleanup ==
    /\ [](UnknownCommand =>
            /\ hnd.deletes = <<"command">> /\ hnd.todo = <<>>
            /\ req.id = hnd.id /\ req.scope = hnd.update.chat
            /\ req.msg = hnd.id /\ req.delay = 5
            /\ dmia_result # NoResult /\ dmia_result.deleted = 0
            /\ sent_message = "none" /\ hnd.platform = "none"
            /\ Cardinality(UnitsOf(hnd.id)) = (IF dmia_result.gate = "True" THEN 1 ELSE 0)
            /\ \A k \in UnitsOf(hnd.id) :
                  /\ units[k].scope = hnd.update.chat
                  /\ units[k].msg = hnd.id /\ units[k].delay = 5)
    /\ [][(nreq' = nreq + 1 /\ hnd'.update.command = "/other") =>
            (Len(units') > Len(units) <=>
                /\ hnd'.update.chat \in DOMAIN tg_groups'
                /\ tg_groups'[hnd'.update.chat].has_is_admin
                /\ tg_groups'[hnd'.update.chat].is_admin)]_vars

\* the second update was an unknown command in a chat that is not the
\* authorized group; its thread is sleeping and nothing was sent
C25_Witness ==
    /\ UnknownCommand /\ hnd.id = 2 /\ hnd.update.chat # authorized_group_id
    /\ pc = "idle" /\ sent_message = "none"
    /\ \E k \in UnitsOf(2) : units[k].pc = "sleeping" /\ units[k].elapsed > 0

\* the thread of unit k has not called delete_message yet
Pending(k) == units[k].pc = "sleeping"

\* the main path takes an update that is a reply to the message of unit k
reply_about(k) ==
    \E shape \in Updates :
        /\ shape.reply /\ units[k].msg \in reply_targets(shape)
        /\ message_handler_on([shape EXCEPT !.reply_to = units[k].msg])

\* C22: nothing orders a pending delayed deletion and the later updates.
\* Whenever the main path is ready for an update, a reply to the message of a
\* unit can be handled, whether the unit has deleted or not, and a unit whose
\* sleep is over can delete, whether such a reply has been handled or not; a
\* step of the main path leaves every unit as it is, and the step of a unit
\* leaves the main path as it is.
C22_NoOrderBetweenDeleteAndUpdates ==
    /\ [](\A k \in UnitIds :
            /\ (pc = "idle" /\ nreq < MaxUpdates) => ENABLED reply_about(k)
            /\ (Pending(k) /\ sleep_returned(units[k])) =>
                  ENABLED delete_message_with_delay(k))
    /\ [][\A k \in UnitIds :
            (nreq' # nreq \/ pc' # pc \/ hnd' # hnd) =>
                (k \in 1..Len(units') /\ units'[k] = units[k])]_vars
    /\ [][\A k \in UnitIds :
            (k \in 1..Len(units') /\ units'[k] # units[k]) =>
                UNCHANGED <<pc, nreq, req, hnd, dmia_result, explained, tg_groups>>]_vars

\* a /delrule sent as a reply to an unknown command was handled to its end,
\* deleting that command message, while the thread started for the same
\* message, its sleep over, had not yet deleted
C22_Witness ==
    \E k \in UnitIds :
        /\ hnd.id > units[k].req
        /\ hnd.update.command = "/delrule"
        /\ hnd.update.reply /\ hnd.update.reply_to = units[k].msg
        /\ hnd.kind = "accept" /\ HandlerOver /\ explained
        /\ Pending(k) /\ sleep_returned(units[k])

\* the other order: the thread has deleted the message, and the main path
\* has yet to take the reply to it
C22_DeleteFirst ==
    \E k \in UnitIds :
        /\ units[k].pc = "done" /\ nreq = units[k].req
        /\ pc = "idle"
        /\ ENABLED reply_about(k)

\* unit k makes its delete_message call in this step
UnitActs(k) ==
    /\ k \in UnitIds /\ k \in 1..Len(units')
    /\ units[k].pc = "sleeping" /\ units'[k].pc = "done"

\* C32: a deletion thread shares nothing with the rest of the process.  Its
\* chat, message and delay are those of the call that started it and never
\* change; its step makes its one delete_message call and leaves tg_groups,
\* the probes made, _flood_data, word_blacklist and every other thread as they
\* are; and once its sleep is over the step can be taken whatever tg_groups,
\* _flood_data and word_blacklist hold.
C32_UnitTouchesNoSharedState ==
    /\ [][Len(units') > Len(units) =>
            LET u == units'[Len(units')]
            IN  /\ u.scope = req'.scope /\ u.msg = req'.msg /\ u.delay = req'.delay
                /\ u.deletes = 0]_vars
    /\ [][\A k \in UnitIds :
            /\ k \in 1..Len(units')
            /\ units'[k].scope = units[k].scope
            /\ units'[k].msg = units[k].msg
            /\ units'[k].delay = units[k].delay]_vars
    /\ [][\A k \in UnitIds : UnitActs(k) =>
            /\ units'[k].deletes = 1
            /\ \A j \in UnitIds \ {k} : units'[j] = units[j]
            /\ UNCHANGED <<tg_groups, probes, _flood_data, word_blacklist>>]_vars
    /\ [](\A k \in UnitIds :
            (Pending(k) /\ sleep_returned(units[k])) =>
                ENABLED delete_message_with_delay(k))

\* a thread has deleted in a chat whose cached is_admin no longer is the
\* bot's status there, with the blacklist loaded: tg_groups still holds the
\* answer of the first probe
C32_Witness ==
    \E k \in UnitIds :
        /\ units[k].pc = "done" /\ units[k].deletes = 1
        /\ units[k].scope \in DOMAIN tg_groups
        /\ tg_groups[units[k].scope].is_admin /\ ~units[k].admin_then
        /\ word_blacklist # <<>>
        /\ probes[units[k].scope] = 1

\* /delrule by an administrator in an authorized chat, with a valid link and
\* no rule number
DelruleWithoutRuleNumber ==
    /\ hnd.id > 0 /\ hnd.update.command = "/delrule"
    /\ is_message_in_correct_group(hnd.update.chat)
    /\ hnd.update.from_admin /\ hnd.update.urls > 0 /\ hnd.update.reddit_link
    /\ hnd.update.rule = "missing"

\* C35 as claimed: /delrule with a valid link and no rule number ends in a
\* rejection, as a reply and with the link in the command itself: the deletion
\* of the command message is requested, the explanation about the rule number
\* is sent once the call has returned, and nothing is removed.
C35_AsClaimed ==
    DelruleWithoutRuleNumber =>
        /\ hnd.kind = "reject"
        /\ hnd.branch \in {"no_rule_number", "bad_rule_number"}
        /\ DeletionRequested /\ req.msg = hnd.id
        /\ hnd.platform = "none"
        /\ (HandlerOver /\ dmia_result.raised = "no") => sent_message = hnd.branch

\* the reply case of C35 does end in the rejection
C35_ReplyIsRejected ==
    (DelruleWithoutRuleNumber /\ hnd.update.reply) =>
        /\ hnd.kind = "reject" /\ hnd.branch = "no_rule_number"
        /\ DeletionRequested /\ req.msg = hnd.id
        /\ hnd.platform = "none"
        /\ (HandlerOver /\ dmia_result.raised = "no") => sent_message = hnd.branch

\* the inline case of C35: the handler was left by the IndexError, nothing
\* requested, nothing sent
C35_InlineRaises ==
    /\ DelruleWithoutRuleNumber /\ ~hnd.update.reply
    /\ hnd.kind = "raise" /\ hnd.branch = "IndexError"
    /\ hnd.deletes = <<>> /\ dmia_result = NoResult /\ sent_message = "none"

\* the check a moderation handler ended at, from the branch it took
CheckOf(branch) ==
    CASE branch = "wrong_group" -> "chat"
      [] branch = "not_admin" -> "sender"
      [] branch \in {"need_url_or_reply", "reply_needs_link", "need_url", "bad_link"} -> "link"
      [] branch \in {"no_rule_number", "bad_rule_number", "unknown_rule", "IndexError"} -> "rule"
      [] branch = "other_subreddit" -> "subreddit"
      [] OTHER -> "none"

\* what update m has to pass
Passes(check, m) ==
    CASE check = "chat" -> is_message_in_correct_group(m.chat)
      [] check = "sender" -> m.from_admin
      [] check = "link" -> m.urls > 0 /\ m.reddit_link
      [] check = "subreddit" -> m.own_subreddit
      [] check = "rule" -> m.command = "/appost" \/ m.rule = "known"
      [] OTHER -> TRUE

\* the first check of the order that update m does not pass
FirstFailed(order, m) ==
    IF \A i \in 1..Len(order) : Passes(order[i], m) THEN "none"
    ELSE order[CHOOSE i \in 1..Len(order) :
                  /\ ~Passes(order[i], m)
                  /\ \A j \in 1..(i - 1) : Passes(order[j], m)]

ModerationHandled == hnd.id > 0 /\ hnd.update.command \in ModerationCommands

PlatformAction == hnd.platform \in {"remove", "approve"}

\* C34 as claimed: the checks are made in the order chat, sender, link and
\* subreddit of its target, rule number.
C34_AsClaimed ==
    ModerationHandled =>
        /\ PlatformAction <=>
              FirstFailed(<<"chat", "sender", "link", "subreddit", "rule">>, hnd.update) = "none"
        /\ CheckOf(hnd.branch) =
              FirstFailed(<<"chat", "sender", "link", "subreddit", "rule">>, hnd.update)

\* C34: delrule, delcomment and appost remove or approve exactly when the
\* update passes every check: authorized chat, sender an administrator, a
\* valid link, a known rule number (delrule, delcomment), target in the
\* configured subreddit.  The handler ends at the first check of that order
\* the update does not pass, the subreddit of the target being checked last,
\* and then acts on nothing.
C34_ChecksBeforePlatformAction ==
    ModerationHandled =>
        /\ PlatformAction <=>
              FirstFailed(<<"chat", "sender", "link", "rule", "subreddit">>, hnd.update) = "none"
        /\ CheckOf(hnd.branch) =
              FirstFailed(<<"chat", "sender", "link", "rule", "subreddit">>, hnd.update)
        /\ PlatformAction =>
              hnd.platform = (IF hnd.update.command = "/appost" THEN "approve" ELSE "remove")

\* /delrule with a rule number that is in no rule and a link to a post of
\* another subreddit was handled to its end: the answer is about the rule
\* number
C34_Witness ==
    /\ ModerationHandled /\ hnd.update.command = "/delrule"
    /\ hnd.update.rule = "unknown" /\ ~hnd.update.own_subreddit
    /\ hnd.update.from_admin /\ hnd.update.urls > 0 /\ hnd.update.reddit_link
    /\ hnd.branch = "unknown_rule" /\ ~PlatformAction
    /\ HandlerOver /\ sent_message = "unknown_rule"

\* text t begins with word w, and w is all of t or is followed by a space
ExactFirstWord(t, w) ==
    /\ Len(t) >= Len(w) /\ SubSeq(t, 1, Len(w)) = w
    /\ (Len(t) = Len(w) \/ t[Len(w) + 1] = 32)

\* text t begins with word w, and after w come only newlines up to the first
\* space or the end of t
FirstWordUpToNewlines(t, w) ==
    /\ Len(t) >= Len(w) /\ SubSeq(t, 1, Len(w)) = w
    /\ \E k \in Len(w)..Len(t) :
          /\ \A i \in (Len(w) + 1)..k : t[i] = 10
          /\ (k = Len(t) \/ t[k + 1] = 32)

\* what message_handler does with the text of the last update, the first
\* word of a text that starts with "/" being matched exactly or up to the
\* whitespace that ends it
DispatchOfText(exactly) ==
    LET t == hnd.update.raw
        called == hnd.update.command
        names(w) == IF exactly THEN ExactFirstWord(t, w) ELSE FirstWordUpToNewlines(t, w)
        nothing == /\ hnd.kind = "ignore" /\ hnd.deletes = <<>> /\ hnd.platform = "none"
                   /\ dmia_result = NoResult /\ sent_message = "none"
    IN  /\ t = None => (called = "notext" /\ nothing)
        /\ (t # None /\ startswith_slash(t)) =>
              /\ called \in DOMAIN CommandWords \cup {"/other"}
              /\ \A c \in DOMAIN CommandWords : called = c <=> names(CommandWords[c])
        /\ (t # None /\ ~startswith_slash(t)) =>
              /\ called \in {"@admin", "plain"}
              /\ called = "@admin" <=> contains(t, at_admin)
              /\ called = "plain" => nothing
        /\ called = "/start" =>
              IF hnd.update.chat = authorized_group_id
              THEN /\ hnd.deletes = <<"command">> /\ hnd.delay = 0
                   /\ DeletionRequested /\ req.msg = hnd.id
                   /\ sent_message = "none" /\ hnd.platform = "none"
              ELSE /\ hnd.deletes = <<>> /\ dmia_result = NoResult
                   /\ sent_message = "welcome" /\ hnd.platform = "none"

\* C37 as claimed: a text that starts with "/" is dispatched by the exact
\* match of its first space-delimited word.
C37_AsClaimed == hnd.id > 0 => DispatchOfText(TRUE)

\* C37: message_handler gives an update to one handler at most.  Without a
\* text nothing is done; a text that starts with "/" goes to the handler whose
\* word is its first space-delimited word without the whitespace around it,
\* to the cleanup of unknown commands if there is none, and never to admin
\* by way of "@admin"; any other text goes to admin iff it contains "@admin"
\* and is ignored otherwise; /start in the authorized group only requests the
\* deletion of the message and elsewhere only answers with the welcome.
C37_DispatchByStrippedFirstWord == hnd.id > 0 => DispatchOfText(FALSE)

\* "/start\n @admin" in the authorized group went to start: the deletion was
\* requested and nothing sent
C37_Witness ==
    /\ hnd.id > 0
    /\ hnd.update.raw = CommandWords["/start"] \o <<10, 32>> \o at_admin
    /\ hnd.update.chat = authorized_group_id
    /\ hnd.update.command = "/start"
    /\ DeletionRequested /\ HandlerOver /\ sent_message = "none"

\* the positions of the calls of one kind among those made for the last
\* submission
CallsOf(kind) == {i \in 1..Len(listener.calls) : listener.calls[i] = kind}

\* the calls made for the last submission are in the order of the loop body:
\* the notice to the admin group first, and only with an admin_group_id other
\* than 0; then the notice to the authorized group, only for a submission of
\* another author; then at most one pin, only after that notice; and a pass
\* in which no call raised has made the notices that are due
RelayedInOrder ==
    LET c == listener.calls
        p == listener.post
    IN  /\ CallsOf("admin_notice") # {} =>
              (listener.admin_group_id # 0 /\ CallsOf("admin_notice") = {1})
        /\ CallsOf("group_notice") # {} =>
              /\ p.author # me
              /\ CallsOf("group_notice") =
                    {IF listener.admin_group_id # 0 THEN 2 ELSE 1}
        /\ Cardinality(CallsOf("pin")) <= 1
        /\ \A i \in CallsOf("pin") : i = Len(c) /\ c[i - 1] = "group_notice"
        /\ (c # <<>> /\ ~listener.raised) =>
              /\ listener.admin_group_id # 0 => CallsOf("admin_notice") # {}
              /\ p.author # me => CallsOf("group_notice") # {}

\* C36 as claimed: a submission older than 3 days (72 hours) is relayed to
\* nobody; any other is relayed, to the admin group first (if admin_group_id
\* is not 0), then to the authorized group if its author is not the bot, and
\* pinned at most once and only after that notice.
C36_AsClaimed ==
    listener.posts > 0 =>
        /\ listener.post.age > too_old_days * 24 => listener.calls = <<>>
        /\ RelayedInOrder

\* the order of the notices and of the pin, the age left aside, and the test of
\* the age as the code makes it: on whole days of local time minus UTC
C36_OrderOfNotices ==
    listener.posts > 0 =>
        /\ RelayedInOrder
        /\ days(listener.post.age + listener.utc_offset) > too_old_days =>
              listener.calls = <<>>

\* a submission of 73 hours ago by a moderator whose title matches both pin
\* rules was relayed to both groups and pinned once
C36_OldPostRelayed ==
    /\ listener.posts > 0 /\ listener.post.age = 73 /\ listener.utc_offset = 0
    /\ listener.post.author = "mod"
    /\ listener.post.title = {"megathread", "weekly"}
    /\ listener.calls = <<"admin_notice", "group_notice", "pin">>
    /\ ~listener.raised

====
